---- MODULE Spec2Model ----
(***************************************************************************)
(* Verification model of the chinese-writer plugin core: the keyword       *)
(* index (HighlightManager), the highlight decoration pass of the editor   *)
(* extension, the index version counter and its invalidation handlers,     *)
(* and the text-block transformations of OrderManager.                     *)
(*                                                                         *)
(* A string is a sequence of one-character strings; offsets into a string  *)
(* are 0-based as in the source, sequence positions are 1-based.           *)
(***************************************************************************)
EXTENDS Integers, Sequences, FiniteSets, TLC

VARIABLES
  \* ---- decoration pass (one run of updateDecorations after its await)
  docText,        \* view.state.doc.toString()
  kwList,         \* the index's keyword Set, in insertion order
  groupMap,       \* keywordGroupCache.get(settingFolder): keyword -> groupId
  mode,           \* settings.highlightStyle.mode
  punctCfg,       \* settings.punctuationCheck
  ranges,         \* the ranges handed to builder.add, in call order
  dpc,            \* "start" before the pass, "done" after it
  \* ---- keyword index of HighlightManager
  vaultText,           \* the content of every Markdown file of the vault, by path
  keywordsCache,       \* settingFolder -> keywords, in insertion order
  keywordPreviewCache, \* settingFolder -> (keyword -> preview data)
  keywordGroupCache,   \* settingFolder -> (keyword -> groupId)
  keywordsVersion,
  \* ---- vault event handlers of the plugin and one editor's ViewPlugin instance
  pendingRefresh,      \* setTimeout(refreshCurrentEditor, 100) timers not yet fired
  updateRunId,         \* the plugin value's updateRunId
  keywordsVersionSeen, \* the plugin value's keywordsVersionSeen
  decorations,         \* the plugin value's decorations: the run that wrote them
  runs,                \* updateDecorations calls suspended at `await extract...`
  invalidations,       \* history: vault events under the reference folder and
                       \* explicit cache clears so far
  applied,             \* history: runs that wrote decorations and dispatched
  discarded,           \* history: runs that returned at the runId check
  \* ---- documents rewritten by OrderManager
  orderFiles,          \* path -> content of the documents of the reference folder
  orderBefore,         \* history: the contents before the operation
  lastOp,              \* history: the operation applied and its arguments
  \* ---- one text handed to the parsers
  parseInput,          \* the text
  parseOutput,         \* the outlines computed from it
  \* ---- the punctuation auto-fix
  fixRuns,             \* the results of applying the fix to the text, then to its output
  \* ---- the hover preview of a tree node
  hoverNode,           \* the hovered node: file, section and entry
  hoverResult,         \* the preview data found for it
  \* ---- the persisted order/expansion store of OrderManager
  isSaving,
  saveTimeout,         \* the pending debounce timer of save(), 0 when none
  saveCalls,           \* the calls of saveNow, by id: where each of them stands
  writesInFlight,      \* the calls whose adapter.write has not finished
  maxInFlight,         \* history: the largest number of writes in flight so far
  \* ---- the parallel document reads of an index build
  readsPending,        \* the files whose read has not completed
  completionOrder,     \* the files in the order in which their reads completed
  \* ---- the callers of save()
  saveRequests,        \* the promises returned by save(), by call: pending or resolved
  \* ---- one editor's ViewPlugin instance and the document its view shows:
  \* shownFile (markdownView.file of the editor), destroyed, currentFile, and
  \* the history of the last two steps
  view,
  \* ---- the tree view: the outlines of the documents, the document order,
  \* treeData, the stored expansion states, and right after a rebuild the
  \* treeData before it
  tree,
  \* ---- the persisted document order (files), the documents that exist
  \* (vault), the vault events not yet handled (events), the tree action
  \* suspended at an await (cont), and history: the paths deleted (deleted),
  \* the number of operations so far (ops)
  orderData,
  \* ---- history: for every document, the index version at which the build
  \* that filled the cache read it
  cacheOrigin,
  \* ---- the reorder operations started on a document, in start order: each
  \* stands at its vault.read, at its vault.modify, or is done
  fileOps

decoVars == <<docText, kwList, groupMap, mode, punctCfg, ranges, dpc>>

cacheVars == <<keywordsCache, keywordPreviewCache, keywordGroupCache>>

indexVars == <<vaultText, cacheVars, keywordsVersion>>

editorVars == <<pendingRefresh, updateRunId, keywordsVersionSeen, decorations, runs,
                invalidations, applied, discarded>>

orderVars == <<orderFiles, orderBefore, lastOp>>

parserVars == <<parseInput, parseOutput>>

fixVars == <<fixRuns>>

hoverVars == <<hoverNode, hoverResult>>

saveVars == <<isSaving, saveTimeout, saveCalls, writesInFlight, maxInFlight, saveRequests>>

readVars == <<readsPending, completionOrder>>

extraVars == <<view, tree, orderData, cacheOrigin, fileOps>>

auxVars == <<parserVars, fixVars, hoverVars, saveVars, readVars, extraVars>>

vars == <<decoVars, indexVars, editorVars, orderVars, auxVars>>

-----------------------------------------------------------------------------
(* Bounds *)

MaxTextLen == 4
MaxKeywords == 2
MaxDocLines == 3
MaxInvalidations == 2
MaxOrderLines == 4
MaxTargetLines == 2
MaxParseLines == 4
\* characters of a text handed to the punctuation auto-fix
MaxFixLen == 4
\* applications of the auto-fix in a row
MaxFixRuns == 2
\* calls of saveNow in one behaviour
MaxSaveCalls == 3
MaxRuns == 3

\* characters of the live document in the decoration model
TextChars == {"a", ".", "1"}
\* two further document texts: a decimal number and a sentence end
PeriodExamples == { <<"3", ".", "1", "4">>, <<"e", "n", "d", ".">> }
\* keyword strings offered to the index of the decoration model
KeywordPool == { <<"a">>, <<".">>, <<"a", "a">>, <<"a", ".">> }
\* group identities of the decoration model's index
GroupIds == { <<"g", "1">>, <<"g", "2">> }

-----------------------------------------------------------------------------
(* Generic helpers *)

Min(S) == CHOOSE x \in S : \A y \in S : x <= y

Max(S) == CHOOSE x \in S : \A y \in S : x >= y

SeqsUpTo(S, n) == UNION { [1..k -> S] : k \in 0..n }

\* the sequences of pairwise different elements of S, of length <= n
DistinctSeqs(S, n) == { s \in SeqsUpTo(S, n) : \A i, j \in 1..Len(s) : i # j => s[i] # s[j] }

Range(s) == { s[i] : i \in 1..Len(s) }

\* Array.prototype.sort with comparator Cmp (negative, zero, positive); the
\* sort is stable: elements that compare equal keep their relative order
StableSort(s, Cmp(_, _)) ==
  LET n == Len(s)
      pos(i) == Cardinality({ j \in 1..n : \/ Cmp(s[j], s[i]) < 0
                                            \/ (Cmp(s[j], s[i]) = 0 /\ j < i) }) + 1
  IN [p \in 1..n |-> s[CHOOSE i \in 1..n : pos(i) = p]]

RECURSIVE SetToSortedSeq(_)
SetToSortedSeq(S) ==
  IF S = {} THEN <<>> ELSE LET m == Min(S) IN <<m>> \o SetToSortedSeq(S \ {m})

RECURSIVE Flatten(_)
Flatten(ss) == IF ss = <<>> THEN <<>> ELSE Head(ss) \o Flatten(Tail(ss))

-----------------------------------------------------------------------------
(* Regular expression of a keyword *)

RegexSpecials == {".", "*", "+", "?", "^", "$", "{", "}", "(", ")", "|", "[", "]", "\\"}

\* the keyword used as pattern source with no escaping
rawKeyword(keyword) == keyword

\* keyword.replace(/[.*+?^${}()|[\]\\]/g, '\\$&'): a backslash before every special
escapeKeyword(keyword) ==
  Flatten([i \in 1..Len(keyword) |->
            IF keyword[i] \in RegexSpecials THEN <<"\\", keyword[i]>> ELSE <<keyword[i]>>])

\* new RegExp(source, 'g'): the pattern as a sequence of one-character matchers.
\* "\c" matches c literally, "." matches any character, any other character
\* matches itself (the sources compiled here hold no other operator).
RECURSIVE RegExpCompile(_)
RegExpCompile(src) ==
  IF src = <<>> THEN <<>>
  ELSE IF Head(src) = "\\" /\ Len(src) >= 2
       THEN <<[any |-> FALSE, ch |-> src[2]]>> \o RegExpCompile(SubSeq(src, 3, Len(src)))
  ELSE IF Head(src) = "."
       THEN <<[any |-> TRUE, ch |-> "."]>> \o RegExpCompile(Tail(src))
  ELSE <<[any |-> FALSE, ch |-> Head(src)]>> \o RegExpCompile(Tail(src))

\* the pattern matches text at 0-based offset off
MatchAt(pat, text, off) ==
  /\ off + Len(pat) <= Len(text)
  /\ \A j \in 1..Len(pat) : pat[j].any \/ pat[j].ch = text[off + j]

\* a scan that resumes one character after the start of the previous match
RECURSIVE RegexExecOverlapping(_, _, _)
RegexExecOverlapping(pat, text, lastIndex) ==
  LET cand == { off \in lastIndex..Len(text) : MatchAt(pat, text, off) }
  IN IF pat = <<>> \/ cand = {} THEN <<>>
     ELSE LET off == Min(cand)
          IN <<off>> \o RegexExecOverlapping(pat, text, off + 1)

\* the loop `while ((match = regex.exec(text)) !== null)` of a global regex:
\* the offsets of the successive matches, each search starting at lastIndex,
\* which exec sets to the end of the previous match
RECURSIVE RegexExecAll(_, _, _)
RegexExecAll(pat, text, lastIndex) ==
  LET cand == { off \in lastIndex..Len(text) : MatchAt(pat, text, off) }
  IN IF pat = <<>> \/ cand = {} THEN <<>>
     ELSE LET off == Min(cand)
          IN <<off>> \o RegexExecAll(pat, text, off + Len(pat))

-----------------------------------------------------------------------------
(* Punctuation warnings *)

IsDigit(c) == c \in {"0", "1", "2", "3", "4", "5", "6", "7", "8", "9"}

\* the full-width quotation marks, written as tokens
LDQ == "LDQ"
RDQ == "RDQ"
LSQ == "LSQ"
RSQ == "RSQ"

\* text[i] of the source for a 0-based index i, "" outside the text
CharAt(text, i) == IF i >= 0 /\ i < Len(text) THEN text[i + 1] ELSE ""

\* a digit on one side is enough
isBetweenDigitsEither(text, i) == IsDigit(CharAt(text, i - 1)) \/ IsDigit(CharAt(text, i + 1))

\* /\d/.test(prevChar) && /\d/.test(nextChar) around 0-based index i
isBetweenDigits(text, i) == IsDigit(CharAt(text, i - 1)) /\ IsDigit(CharAt(text, i + 1))

\* first loop of collectPunctuationWarnings: the ASCII marks of the enabled rules
asciiWarning(config, text, i) ==
  LET ch == CharAt(text, i)
  IN \/ config.comma /\ ch = ","
     \/ config.period /\ ch = "." /\ ~isBetweenDigits(text, i)
     \/ config.colon /\ ch = ":"
     \/ config.semicolon /\ ch = ";"
     \/ config.exclamation /\ ch = "!"
     \/ config.question /\ ch = "?"
     \/ config.doubleQuote /\ ch = "\""
     \/ config.singleQuote /\ ch = "'"

\* the stack scan of full-width quotes: an unmatched closing quote is flagged,
\* and so is every opening quote still on the stack at the end of the text
RECURSIVE unpairedQuotes(_, _, _, _, _, _)
unpairedQuotes(text, i, openCh, closeCh, open, warn) ==
  IF i >= Len(text) THEN warn \cup Range(open)
  ELSE IF CharAt(text, i) = openCh
       THEN unpairedQuotes(text, i + 1, openCh, closeCh, Append(open, i), warn)
  ELSE IF CharAt(text, i) = closeCh
       THEN IF Len(open) > 0
            THEN unpairedQuotes(text, i + 1, openCh, closeCh, SubSeq(open, 1, Len(open) - 1), warn)
            ELSE unpairedQuotes(text, i + 1, openCh, closeCh, open, warn \cup {i})
  ELSE unpairedQuotes(text, i + 1, openCh, closeCh, open, warn)

\* collectPunctuationWarnings(text): the flagged 0-based indexes, ascending
collectPunctuationWarnings(config, text) ==
  IF ~config.enabled THEN <<>>
  ELSE LET ascii == { i \in 0..(Len(text) - 1) : asciiWarning(config, text, i) }
           dq == IF config.doubleQuote THEN unpairedQuotes(text, 0, LDQ, RDQ, <<>>, {}) ELSE {}
           sq == IF config.singleQuote THEN unpairedQuotes(text, 0, LSQ, RSQ, <<>>, {}) ELSE {}
       IN SetToSortedSeq(ascii \cup dq \cup sq)

\* settings.punctuationCheck with every rule set to b
PunctAll(b) ==
  [enabled |-> b, comma |-> b, period |-> b, colon |-> b, semicolon |-> b,
   exclamation |-> b, question |-> b, doubleQuote |-> b, singleQuote |-> b]

PunctConfigs == { PunctAll(FALSE), PunctAll(TRUE) }

-----------------------------------------------------------------------------
(* The decoration pass of updateDecorations *)

\* every keyword a group of its own, the group map ignored
groupIdPerKeyword(keywordGroupMap, keyword) == <<"k", "w", ":", ":">> \o keyword

\* keywordGroupMap.get(match.keyword) ?? `kw::${match.keyword}`
groupIdOf(keywordGroupMap, keyword) ==
  IF keyword \in DOMAIN keywordGroupMap THEN keywordGroupMap[keyword]
  ELSE <<"k", "w", ":", ":">> \o keyword

\* the matches pushed for one keyword
matchesOfKeyword(text, keyword) ==
  LET offs == RegexExecAll(RegExpCompile(escapeKeyword(keyword)), text, 0)
  IN [n \in 1..Len(offs) |-> [from |-> offs[n], to |-> offs[n] + Len(keyword), keyword |-> keyword]]

\* `for (const keyword of keywords)`: the matches array in push order
collectMatches(text, keywords) ==
  Flatten([k \in 1..Len(keywords) |-> matchesOfKeyword(text, keywords[k])])

cmpFrom(a, b) == a.from - b.from

cmpFromTo(a, b) == IF a.from # b.from THEN a.from - b.from ELSE a.to - b.to

\* no ordering: the comparator reports every pair as equal
cmpNone(a, b) == 0

\* firstByGroup: the first match of every group in the order of sortedMatches
RECURSIVE firstByGroup(_, _, _)
firstByGroup(sortedMatches, keywordGroupMap, seen) ==
  IF sortedMatches = <<>> THEN <<>>
  ELSE LET m == Head(sortedMatches)
           g == groupIdOf(keywordGroupMap, m.keyword)
       IN IF g \in seen
          THEN firstByGroup(Tail(sortedMatches), keywordGroupMap, seen)
          ELSE <<m>> \o firstByGroup(Tail(sortedMatches), keywordGroupMap, seen \cup {g})

finalMatchesOf(matches, keywordGroupMap, highlightMode) ==
  IF highlightMode = "first"
  THEN firstByGroup(StableSort(matches, cmpFrom), keywordGroupMap, {})
  ELSE matches

\* the ranges left in push order: keyword ranges, then punctuation ranges
unsortedDecorationRanges(decorationRanges) == StableSort(decorationRanges, cmpNone)

\* the final sort of decorationRanges
sortDecorationRanges(decorationRanges) == StableSort(decorationRanges, cmpFromTo)

\* updateDecorations from `const text = doc.toString()` to the builder.add loop:
\* the ranges in the order in which they are added to the RangeSetBuilder
decorationPass(text, keywords, keywordGroupMap, highlightMode, config) ==
  LET matches == collectMatches(text, keywords)
      finalMatches == StableSort(finalMatchesOf(matches, keywordGroupMap, highlightMode), cmpFrom)
      keywordRanges == [n \in 1..Len(finalMatches) |->
                          [from |-> finalMatches[n].from, to |-> finalMatches[n].to,
                           kind |-> "keyword", keyword |-> finalMatches[n].keyword]]
      warnings == collectPunctuationWarnings(config, text)
      punctRanges == [n \in 1..Len(warnings) |->
                          [from |-> warnings[n], to |-> warnings[n] + 1,
                           kind |-> "punctuation", keyword |-> <<>>]]
  IN sortDecorationRanges(keywordRanges \o punctRanges)

-----------------------------------------------------------------------------
(* Specification of one decoration pass: the inputs are drawn in DecoInit,  *)
(* UpdateDecorations applies the pass.                                      *)

\* the parsers while another part is studied alone
ParserIdle ==
  /\ parseInput = << >>
  /\ parseOutput = [md |-> [null |-> TRUE], again |-> [null |-> TRUE],
                    file |-> [null |-> TRUE], h3 |-> [null |-> TRUE]]

\* the punctuation auto-fix while another part is studied alone
FixIdle == fixRuns = << >>

\* the hover preview while another part is studied alone
HoverIdle ==
  /\ hoverNode = [hovered |-> FALSE]
  /\ hoverResult = [shown |-> FALSE]

\* the persisted store while another part is studied alone
SaveIdle ==
  /\ isSaving = FALSE
  /\ saveTimeout = 0
  /\ saveCalls = << >>
  /\ writesInFlight = {}
  /\ maxInFlight = 0
  /\ saveRequests = << >>

\* the document reads while another part is studied alone
ReadIdle ==
  /\ readsPending = {}
  /\ completionOrder = << >>

\* the editor view, the tree view and the document order while another part
\* is studied alone
ViewIdle == view = [idle |-> TRUE]

TreeIdle == tree = [idle |-> TRUE]

OrderDataIdle == orderData = [idle |-> TRUE]

OriginIdle == cacheOrigin = << >>

FileOpsIdle == fileOps = << >>

ExtraIdle == ViewIdle /\ TreeIdle /\ OrderDataIdle /\ OriginIdle /\ FileOpsIdle

AuxIdle == ParserIdle /\ FixIdle /\ HoverIdle /\ SaveIdle /\ ReadIdle /\ ExtraIdle

\* OrderManager's documents while another part is studied alone
OrderIdle ==
  /\ orderFiles = << >>
  /\ orderBefore = << >>
  /\ lastOp = [op |-> "none"]

\* the event handlers and the editor while another part is studied alone
EditorIdle ==
  /\ pendingRefresh = 0
  /\ updateRunId = 0
  /\ keywordsVersionSeen = -1
  /\ decorations = [run |-> 0]
  /\ runs = {}
  /\ invalidations = 0
  /\ applied = {}
  /\ discarded = {}

\* the index variables while the decoration pass is studied alone
IndexIdle ==
  /\ vaultText = << >>
  /\ keywordsCache = << >>
  /\ keywordPreviewCache = << >>
  /\ keywordGroupCache = << >>
  /\ keywordsVersion = 0

\* the decoration pass while another part is studied alone
DecoIdle ==
  /\ docText = << >> /\ kwList = << >> /\ groupMap = << >> /\ mode = "all"
  /\ punctCfg = [enabled |-> FALSE, comma |-> FALSE, period |-> FALSE, colon |-> FALSE,
                 semicolon |-> FALSE, exclamation |-> FALSE, question |-> FALSE,
                 doubleQuote |-> FALSE, singleQuote |-> FALSE]
  /\ ranges = << >> /\ dpc = "idle"

DecoInit ==
  /\ IndexIdle
  /\ EditorIdle
  /\ OrderIdle
  /\ AuxIdle
  /\ docText \in SeqsUpTo(TextChars, MaxTextLen) \cup PeriodExamples
  /\ kwList \in DistinctSeqs(KeywordPool, MaxKeywords)
  /\ groupMap \in [Range(kwList) -> GroupIds]
  /\ mode \in {"first", "all"}
  /\ punctCfg \in PunctConfigs
  /\ ranges = <<>>
  /\ dpc = "start"

UpdateDecorations ==
  /\ dpc = "start"
  /\ ranges' = decorationPass(docText, kwList, groupMap, mode, punctCfg)
  /\ dpc' = "done"
  /\ UNCHANGED <<docText, kwList, groupMap, mode, punctCfg>>
  /\ UNCHANGED <<indexVars, editorVars, orderVars, auxVars>>

DecoNext == UpdateDecorations

DecoSpec == DecoInit /\ [][DecoNext]_vars

-----------------------------------------------------------------------------
(* Properties of the decoration pass *)

\* keyword k occurs literally in text at 0-based offset off
OccursAt(k, text, off) ==
  /\ off >= 0
  /\ off + Len(k) <= Len(text)
  /\ \A j \in 1..Len(k) : text[off + j] = k[j]

Occurrences(k, text) == { off \in 0..Len(text) : OccursAt(k, text, off) }

KeywordRangeIdx == { n \in 1..Len(ranges) : ranges[n].kind = "keyword" }
PunctRangeIdx == { n \in 1..Len(ranges) : ranges[n].kind = "punctuation" }

\* the groups of the index that have at least one match in the text
MatchedGroups == { groupMap[k] : k \in { q \in Range(kwList) : Occurrences(q, docText) # {} } }

\* the smallest start offset among the occurrences of the keywords of group g
EarliestOfGroup(g) ==
  Min(UNION { Occurrences(k, docText) : k \in { q \in Range(kwList) : groupMap[q] = g } })

\* C1: in "first" mode a pass emits exactly one keyword range for every group
\* that has a match, located at the earliest occurrence of any title or alias
\* of the group, and no other keyword range.
C1_FirstModeOnePerGroup ==
  (dpc = "done" /\ mode = "first") =>
     /\ \A g \in MatchedGroups :
          \E n \in KeywordRangeIdx :
             /\ groupMap[ranges[n].keyword] = g
             /\ ranges[n].from = EarliestOfGroup(g)
             /\ OccursAt(ranges[n].keyword, docText, ranges[n].from)
             /\ \A m \in KeywordRangeIdx : groupMap[ranges[m].keyword] = g => m = n
     /\ Cardinality(KeywordRangeIdx) = Cardinality(MatchedGroups)

\* a title and an alias of one group both occur, the alias first
C1_Witness ==
  /\ dpc = "done" /\ mode = "first"
  /\ \E k1, k2 \in Range(kwList) :
        /\ k1 # k2 /\ groupMap[k1] = groupMap[k2]
        /\ Occurrences(k1, docText) # {} /\ Occurrences(k2, docText) # {}
        /\ Min(Occurrences(k2, docText)) < Min(Occurrences(k1, docText))
        /\ Cardinality(Occurrences(k1, docText)) >= 2
        /\ Cardinality(KeywordRangeIdx) = 1

\* C2: the ranges handed to the builder are sorted by from, then by to.
C2_RangesSorted ==
  dpc = "done" =>
     \A n \in 1..(Len(ranges) - 1) :
        \/ ranges[n].from < ranges[n + 1].from
        \/ (ranges[n].from = ranges[n + 1].from /\ ranges[n].to <= ranges[n + 1].to)

\* a punctuation range precedes a keyword range, and two ranges share a start
C2_Witness ==
  /\ dpc = "done"
  /\ \E p \in PunctRangeIdx, k \in KeywordRangeIdx : p < k
  /\ \E n \in 1..(Len(ranges) - 1) :
        ranges[n].from = ranges[n + 1].from /\ ranges[n].to < ranges[n + 1].to

RangeStarts(k) == { ranges[n].from : n \in { q \in KeywordRangeIdx : ranges[q].keyword = k } }

\* C4 as stated: in "all" mode there is exactly one range [i, i + length(k)) for
\* every keyword k and every offset i at which k occurs literally.
C4_AllOccurrences ==
  (dpc = "done" /\ mode = "all") =>
     /\ \A k \in Range(kwList) : RangeStarts(k) = Occurrences(k, docText)
     /\ \A n \in KeywordRangeIdx : ranges[n].to = ranges[n].from + Len(ranges[n].keyword)

\* C4 as amended: in "all" mode the ranges of keyword k are the literal
\* occurrences of k found scanning left to right without overlap: an occurrence
\* at offset i has a range unless it starts inside an earlier range of k; every
\* range is one literal occurrence of exactly the keyword's length, none twice.
C4_AllNonOverlappingOccurrences ==
  (dpc = "done" /\ mode = "all") =>
     /\ \A k \in Range(kwList) :
          /\ RangeStarts(k) \subseteq Occurrences(k, docText)
          /\ \A i \in Occurrences(k, docText) :
                (i \in RangeStarts(k)) <=>
                   ~ \E j \in RangeStarts(k) : j < i /\ i < j + Len(k)
          /\ Cardinality({ n \in KeywordRangeIdx : ranges[n].keyword = k })
                = Cardinality(RangeStarts(k))
     /\ \A n \in KeywordRangeIdx :
          /\ ranges[n].keyword \in Range(kwList)
          /\ ranges[n].to = ranges[n].from + Len(ranges[n].keyword)

\* a keyword holding a regex-special character is matched, another keyword
\* has an occurrence that overlaps its previous one
C4_Witness ==
  /\ dpc = "done" /\ mode = "all"
  /\ \E k \in Range(kwList) : "." \in Range(k) /\ RangeStarts(k) # {}
  /\ \E k \in Range(kwList) : RangeStarts(k) # {} /\ RangeStarts(k) # Occurrences(k, docText)

\* the pass has flagged the character at 0-based offset i
PunctFlagAt(i) == \E n \in PunctRangeIdx : ranges[n].from = i /\ ranges[n].to = i + 1

\* C17: with the period rule enabled, an ASCII '.' at offset i is flagged if
\* and only if it does not have a digit on both sides: '3.14' yields no flag,
\* 'end.' exactly one, and a '.' with a digit on one side only, or at the
\* start or end of the text, is flagged.
C17_PeriodFlagRule ==
  (dpc = "done" /\ punctCfg.enabled /\ punctCfg.period) =>
    /\ \A i \in 0..(Len(docText) - 1) :
         docText[i + 1] = "." =>
           (PunctFlagAt(i) <=>
              ~(/\ i >= 1 /\ IsDigit(docText[i])
                /\ i + 2 <= Len(docText) /\ IsDigit(docText[i + 2])))
    /\ docText = <<"3", ".", "1", "4">> => PunctRangeIdx = {}
    /\ docText = <<"e", "n", "d", ".">> =>
         /\ Cardinality(PunctRangeIdx) = 1
         /\ PunctFlagAt(3)

\* a pass over a text with a '.' between digits and a '.' after a digit at
\* the end of the text
C17_Witness ==
  /\ dpc = "done" /\ punctCfg.enabled /\ punctCfg.period
  /\ docText = <<"1", ".", "1", ".">>
  /\ PunctFlagAt(3) /\ ~PunctFlagAt(1)

-----------------------------------------------------------------------------
(* String operations of the source *)

IsSpace(c) == c \in {" ", "\t", "\r", "\n"}

\* String.prototype.trim
RECURSIVE Trim(_)
Trim(s) ==
  IF s = <<>> THEN s
  ELSE IF IsSpace(Head(s)) THEN Trim(Tail(s))
  ELSE IF IsSpace(s[Len(s)]) THEN Trim(SubSeq(s, 1, Len(s) - 1))
  ELSE s

\* s.startsWith(p)
StartsWith(s, p) == Len(p) <= Len(s) /\ SubSeq(s, 1, Len(p)) = p

\* s.substring(n) and s.slice(n) for 0 <= n
SubstringFrom(s, n) == SubSeq(s, n + 1, Len(s))

\* s.indexOf(sub): the first 0-based offset of sub in s, -1 when absent
IndexOf(s, sub) ==
  LET at == { i \in 0..(Len(s) - Len(sub)) : SubSeq(s, i + 1, i + Len(sub)) = sub }
  IN IF at = {} THEN -1 ELSE Min(at)

\* s.split(sep) for a set of one-character separators
RECURSIVE SplitOn(_, _)
SplitOn(s, seps) ==
  LET at == { i \in 1..Len(s) : s[i] \in seps }
  IN IF at = {} THEN <<s>>
     ELSE LET i == Min(at)
          IN <<SubSeq(s, 1, i - 1)>> \o SplitOn(SubSeq(s, i + 1, Len(s)), seps)

\* lines.join("\n")
RECURSIVE JoinLines(_)
JoinLines(lines) ==
  IF lines = <<>> THEN <<>>
  ELSE IF Len(lines) = 1 THEN lines[1]
  ELSE lines[1] \o <<"\n">> \o JoinLines(Tail(lines))

\* content.split("\n")
SplitLines(content) == SplitOn(content, {"\n"})

\* [...new Set(items)]: the first occurrence of every item, in order
RECURSIVE Dedupe(_)
Dedupe(items) ==
  IF items = <<>> THEN <<>>
  ELSE LET init == Dedupe(SubSeq(items, 1, Len(items) - 1))
           last == items[Len(items)]
       IN IF last \in Range(init) THEN init ELSE Append(init, last)

\* trimmed.startsWith("# ") && !trimmed.startsWith("## ")
isH1Line(trimmed) == StartsWith(trimmed, <<"#", " ">>) /\ ~StartsWith(trimmed, <<"#", "#", " ">>)

\* trimmed.startsWith("## ") && !trimmed.startsWith("### ")
isH2Line(trimmed) ==
  StartsWith(trimmed, <<"#", "#", " ">>) /\ ~StartsWith(trimmed, <<"#", "#", "#", " ">>)

\* trimmed.startsWith("### ") && !trimmed.startsWith("#### ")
isH3Line(trimmed) ==
  StartsWith(trimmed, <<"#", "#", "#", " ">>) /\ ~StartsWith(trimmed, <<"#", "#", "#", "#", " ">>)

-----------------------------------------------------------------------------
(* FileParser.parseFile *)

Null == [null |-> TRUE]

\* one iteration of the line loop of parseFile
parseFileStep(st, line, i) ==
  LET trimmedLine == Trim(line)
  IN IF line = <<>> THEN st
     ELSE IF isH1Line(trimmedLine)
     THEN LET closedH1 == IF st.currentH2 # Null /\ st.currentH1 # Null
                          THEN [st.currentH1 EXCEPT !.h2List = Append(@, st.currentH2)]
                          ELSE st.currentH1
          IN [h1List |-> IF closedH1 # Null THEN Append(st.h1List, closedH1) ELSE st.h1List,
              currentH1 |-> [text |-> Trim(SubstringFrom(trimmedLine, 2)), lineNumber |-> i,
                             h2List |-> <<>>],
              currentH2 |-> IF st.currentH2 # Null /\ st.currentH1 # Null THEN Null
                            ELSE st.currentH2]
     ELSE IF isH2Line(trimmedLine) /\ st.currentH1 # Null
     THEN [st EXCEPT
             !.currentH1 = IF st.currentH2 # Null
                           THEN [st.currentH1 EXCEPT !.h2List = Append(@, st.currentH2)]
                           ELSE st.currentH1,
             !.currentH2 = [text |-> Trim(SubstringFrom(trimmedLine, 3)), lineNumber |-> i,
                            content |-> <<>>]]
     ELSE IF st.currentH2 # Null /\ Len(trimmedLine) > 0
     THEN [st EXCEPT !.currentH2 = [st.currentH2 EXCEPT !.content = Append(@, line)]]
     ELSE st

RECURSIVE parseFileLoop(_, _, _)
parseFileLoop(st, lines, i) ==
  IF i >= Len(lines) THEN st
  ELSE parseFileLoop(parseFileStep(st, lines[i + 1], i), lines, i + 1)

\* parseFile(file) for a Markdown file: { filePath, h1List }; the display name
\* fileName is not modelled
parseFile(filePath, content) ==
  LET st == parseFileLoop([h1List |-> <<>>, currentH1 |-> Null, currentH2 |-> Null],
                          SplitLines(content), 0)
      lastH1 == IF st.currentH2 # Null /\ st.currentH1 # Null
                THEN [st.currentH1 EXCEPT !.h2List = Append(@, st.currentH2)]
                ELSE st.currentH1
  IN [filePath |-> filePath,
      h1List |-> IF lastH1 # Null THEN Append(st.h1List, lastH1) ELSE st.h1List]

-----------------------------------------------------------------------------
(* Keyword index: extractKeywordsFromSettingFolder *)

\* the tag of an alias line, four characters in the source
aliasTag == <<"LB", "BIE", "MING", "RB">>

\* the full-width comma
FWCOMMA == "FWCOMMA"

\* the aliases of one line: the trimmed non-empty pieces after the tag
aliasesOfLine(line) ==
  LET aliasIndex == IndexOf(line, aliasTag)
      rawValue == Trim(SubstringFrom(line, aliasIndex + Len(aliasTag)))
      parts == SplitOn(rawValue, {FWCOMMA, ","})
  IN IF aliasIndex = -1 \/ rawValue = <<>> THEN <<>>
     ELSE SelectSeq([n \in 1..Len(parts) |-> Trim(parts[n])], LAMBDA a : a # <<>>)

extractAliases(lines) ==
  Dedupe(Flatten([n \in 1..Len(lines) |-> aliasesOfLine(lines[n])]))

\* extractH3Sections: the loop state after the lines, then the final flush
RECURSIVE h3Loop(_, _)
h3Loop(st, lines) ==
  IF lines = <<>> THEN st
  ELSE LET line == Head(lines)
           trimmed == Trim(line)
           flushed == IF st.currentTitle = <<>> THEN st.sections
                      ELSE Append(st.sections, [title |-> st.currentTitle,
                                                aliases |-> extractAliases(st.currentLines)])
       IN IF isH3Line(trimmed)
          THEN h3Loop([sections |-> flushed, currentTitle |-> Trim(SubstringFrom(trimmed, 4)),
                       currentLines |-> <<>>], Tail(lines))
          ELSE IF st.currentTitle # <<>>
          THEN h3Loop([st EXCEPT !.currentLines = Append(@, line)], Tail(lines))
          ELSE h3Loop(st, Tail(lines))

extractH3Sections(lines) ==
  LET st == h3Loop([sections |-> <<>>, currentTitle |-> <<>>, currentLines |-> <<>>], lines)
  IN IF st.currentTitle = <<>> THEN st.sections
     ELSE Append(st.sections, [title |-> st.currentTitle,
                               aliases |-> extractAliases(st.currentLines)])

SEP == <<":", ":">>

\* `h2::${filePath}::${h1.text}::${h2.text}`
h2GroupIdOf(filePath, h1Text, h2Text) ==
  <<"h", "2">> \o SEP \o filePath \o SEP \o h1Text \o SEP \o h2Text

\* `h3::${filePath}::${h1.text}::${h2.text}::${h3.title}`
h3GroupIdOf(filePath, h1Text, h2Text, h3Title) ==
  <<"h", "3">> \o SEP \o filePath \o SEP \o h1Text \o SEP \o h2Text \o SEP \o h3Title

\* the registrant overwrites an existing key
addKeywordVariantOverwrite(idx, variant, previewData, groupId) ==
  LET normalized == Trim(variant)
  IN IF normalized = <<>> THEN idx
     ELSE [keywords |-> IF normalized \in Range(idx.keywords) THEN idx.keywords
                        ELSE Append(idx.keywords, normalized),
           previewMap |-> (normalized :> previewData) @@ idx.previewMap,
           groupMap |-> (normalized :> groupId) @@ idx.groupMap]

\* addKeywordVariant: the first registrant of a key wins
addKeywordVariant(idx, variant, previewData, groupId) ==
  LET normalized == Trim(variant)
  IN IF normalized = <<>> THEN idx
     ELSE IF normalized \in DOMAIN idx.previewMap THEN idx
     ELSE [keywords |-> Append(idx.keywords, normalized),
           previewMap |-> (normalized :> previewData) @@ idx.previewMap,
           groupMap |-> (normalized :> groupId) @@ idx.groupMap]

\* the calls of addKeywordVariant made for one H3 section, in order
h3Registrations(filePath, h1Text, h2Text, h3) ==
  IF h3.title = <<>> THEN <<>>
  ELSE LET groupId == h3GroupIdOf(filePath, h1Text, h2Text, h3.title)
           previewData == [keyword |-> h3.title, filePath |-> filePath, h1Title |-> h1Text,
                           h2Title |-> h2Text, aliases |-> h3.aliases]
       IN <<[variant |-> h3.title, previewData |-> previewData, groupId |-> groupId]>>
          \o [n \in 1..Len(h3.aliases) |->
                [variant |-> h3.aliases[n], previewData |-> previewData, groupId |-> groupId]]

\* the calls of addKeywordVariant made for one H2, in order
h2Registrations(filePath, h1Text, h2) ==
  LET keyword == Trim(h2.text)
      h2Aliases == extractAliases(h2.content)
      groupId == h2GroupIdOf(filePath, h1Text, h2.text)
      previewData == [keyword |-> keyword, filePath |-> filePath, h1Title |-> h1Text,
                      h2Title |-> h2.text, aliases |-> h2Aliases]
      h3Sections == extractH3Sections(h2.content)
  IN IF keyword = <<>> THEN <<>>
     ELSE <<[variant |-> keyword, previewData |-> previewData, groupId |-> groupId]>>
          \o [n \in 1..Len(h2Aliases) |->
                [variant |-> h2Aliases[n], previewData |-> previewData, groupId |-> groupId]]
          \o Flatten([n \in 1..Len(h3Sections) |->
                        h3Registrations(filePath, h1Text, h2.text, h3Sections[n])])

\* the calls made for one parse result
fileRegistrations(parseResult) ==
  Flatten([a \in 1..Len(parseResult.h1List) |->
     Flatten([b \in 1..Len(parseResult.h1List[a].h2List) |->
        h2Registrations(parseResult.filePath, parseResult.h1List[a].text,
                        parseResult.h1List[a].h2List[b])])])

RECURSIVE registerAll(_, _)
registerAll(idx, regs) ==
  IF regs = <<>> THEN idx
  ELSE registerAll(addKeywordVariant(idx, Head(regs).variant, Head(regs).previewData,
                                     Head(regs).groupId), Tail(regs))

EmptyIndex == [keywords |-> <<>>, previewMap |-> << >>, groupMap |-> << >>]

\* the index built from the parse results in the order of the file listing
buildIndex(parsedList) ==
  registerAll(EmptyIndex, Flatten([n \in 1..Len(parsedList) |-> fileRegistrations(parsedList[n])]))

-----------------------------------------------------------------------------
(* Specification of the index build: the reference documents are drawn in   *)
(* IndexInit; ExtractKeywords builds the index and caches it.               *)

SettingFolder == <<"r">>

RefFile1 == <<"r", "/", "1">>
RefFile2 == <<"r", "/", "2">>
NovelFile == <<"n", "/", "1">>

\* vault.getMarkdownFiles(), in the vault's listing order
MarkdownFiles == <<RefFile1, NovelFile, RefFile2>>

\* the lines the reference documents are made of
LineH1S == <<"#", " ", "S">>
LineH2A == <<"#", "#", " ", "A">>
LineH2X == <<" ", "#", "#", " ", "X", " ">>
LineAliasX == aliasTag \o <<"X">>
LineAliasYA == <<"-", " ">> \o aliasTag \o <<" ", "Y", FWCOMMA, "A", ",", " ">>
LineH3Y == <<"#", "#", "#", " ", "Y">>

\* the documents offered for the first reference file
RefDocs == { JoinLines(d) : d \in SeqsUpTo({ LineH1S, LineH2A, LineH2X, LineAliasX, LineH3Y },
                                            MaxDocLines) }

\* the documents offered for the second reference file
RefDocs2 == { JoinLines(d) : d \in SeqsUpTo({ LineH1S, LineH2X, LineAliasYA }, MaxDocLines) }

\* a document with one entry, one sub-entry and an alias line of the sub-entry
SubEntryDoc == JoinLines(<<LineH1S, LineH2A, LineH3Y, LineAliasX>>)

\* a manuscript document, outside the reference folder
NovelDoc == JoinLines(<<LineH1S, <<"#", "#", " ", "Z">>>>)

\* getMarkdownFilesInFolder(folderPath)
getMarkdownFilesInFolder(folderPath) ==
  SelectSeq(MarkdownFiles,
            LAMBDA f : folderPath = <<>> \/ StartsWith(f, folderPath \o <<"/">>) \/ f = folderPath)

\* the three cache maps hold the folder
cacheHas(settingFolder) ==
  /\ settingFolder \in DOMAIN keywordsCache
  /\ settingFolder \in DOMAIN keywordPreviewCache
  /\ settingFolder \in DOMAIN keywordGroupCache

\* the index extractKeywordsFromSettingFolder builds from the current vault
builtIndex(settingFolder) ==
  LET files == getMarkdownFilesInFolder(settingFolder)
  IN buildIndex([n \in 1..Len(files) |-> parseFile(files[n], vaultText[files[n]])])

IndexInit ==
  /\ vaultText \in { (RefFile1 :> d1) @@ (RefFile2 :> d2) @@ (NovelFile :> NovelDoc) :
                        d1 \in RefDocs \cup {SubEntryDoc}, d2 \in RefDocs2 }
  /\ keywordsCache = << >>
  /\ keywordPreviewCache = << >>
  /\ keywordGroupCache = << >>
  /\ keywordsVersion = 0
  /\ docText = << >> /\ kwList = << >> /\ groupMap = << >> /\ mode = "all"
  /\ punctCfg = PunctAll(FALSE) /\ ranges = << >> /\ dpc = "idle"
  /\ EditorIdle
  /\ OrderIdle
  /\ AuxIdle

\* extractKeywordsFromSettingFolder(SettingFolder), its reads included
ExtractKeywords ==
  /\ ~cacheHas(SettingFolder)
  /\ LET idx == builtIndex(SettingFolder)
     IN /\ keywordsCache' = (SettingFolder :> idx.keywords) @@ keywordsCache
        /\ keywordPreviewCache' = (SettingFolder :> idx.previewMap) @@ keywordPreviewCache
        /\ keywordGroupCache' = (SettingFolder :> idx.groupMap) @@ keywordGroupCache
  /\ UNCHANGED <<vaultText, keywordsVersion, decoVars, editorVars, orderVars, auxVars>>

IndexNext == ExtractKeywords

IndexSpec == IndexInit /\ [][IndexNext]_vars

-----------------------------------------------------------------------------
(* Properties of the index build *)

\* the Entries of the reference folder in the order the build processes them
EntryList ==
  LET files == getMarkdownFilesInFolder(SettingFolder)
      parsed == [n \in 1..Len(files) |-> parseFile(files[n], vaultText[files[n]])]
  IN Flatten([n \in 1..Len(parsed) |->
        Flatten([a \in 1..Len(parsed[n].h1List) |->
           [b \in 1..Len(parsed[n].h1List[a].h2List) |->
              [filePath |-> parsed[n].filePath, h1Text |-> parsed[n].h1List[a].text,
               h2 |-> parsed[n].h1List[a].h2List[b]]]])])

EntryTitle(e) == Trim(e.h2.text)
EntryAliases(e) == Range(extractAliases(e.h2.content))

\* every key an Entry offers to the index: title, aliases, Sub-entry titles and aliases
EntryKeys(e) ==
  { Trim(r.variant) : r \in Range(h2Registrations(e.filePath, e.h1Text, e.h2)) } \ { <<>> }

KeysBefore(entries, n) == UNION { EntryKeys(entries[m]) : m \in 1..(n - 1) }

IndexBuilt == cacheHas(SettingFolder)

\* C5 as stated: after a build, the title and every alias of every Entry have
\* the same groupId.
C5_AliasGroup ==
  IndexBuilt =>
     LET entries == EntryList
     IN \A n \in 1..Len(entries) :
           \A a \in EntryAliases(entries[n]) :
              keywordGroupCache[SettingFolder][EntryTitle(entries[n])]
                 = keywordGroupCache[SettingFolder][a]

\* C5 as amended: after a build, the title and every alias of an Entry that are
\* not keys of an Entry processed earlier map to that Entry's groupId, and so to
\* the same groupId; a key of an earlier Entry keeps the earlier registration.
C5_AliasGroupFirstRegistrant ==
  IndexBuilt =>
     LET entries == EntryList
     IN \A n \in 1..Len(entries) :
           LET e == entries[n]
           IN \A k \in ({EntryTitle(e)} \cup EntryAliases(e)) \ KeysBefore(entries, n) :
                 /\ k \in DOMAIN keywordGroupCache[SettingFolder]
                 /\ keywordGroupCache[SettingFolder][k]
                       = h2GroupIdOf(e.filePath, e.h1Text, e.h2.text)

\* an Entry registers its title and an alias, and a later Entry's title is that alias
C5_Witness ==
  /\ IndexBuilt
  /\ LET entries == EntryList
     IN \E n, m \in 1..Len(entries) :
           /\ n < m
           /\ EntryAliases(entries[n]) \ ({EntryTitle(entries[n])} \cup KeysBefore(entries, n)) # {}
           /\ EntryTitle(entries[m]) \in EntryAliases(entries[n])
           /\ EntryAliases(entries[m]) \ KeysBefore(entries, m) # {}

\* C26: a Sub-entry is its own semantic unit in the index: for every Entry
\* and every Sub-entry inside it with title t and an alias a declared in the
\* Sub-entry's own lines, after a build the groupId of a is the groupId of t,
\* the Sub-entry's groupId, and the record of a is the Sub-entry's record,
\* not the enclosing Entry's.
C26_SubEntryOwnsItsAliases ==
  IndexBuilt =>
     LET entries == EntryList
     IN \A n \in 1..Len(entries) :
          LET e == entries[n]
              h3s == extractH3Sections(e.h2.content)
          IN \A m \in 1..Len(h3s) : \A a \in Range(h3s[m].aliases) :
                h3s[m].title # <<>> =>
                  /\ keywordGroupCache[SettingFolder][a]
                       = keywordGroupCache[SettingFolder][h3s[m].title]
                  /\ keywordGroupCache[SettingFolder][a]
                       = h3GroupIdOf(e.filePath, e.h1Text, e.h2.text, h3s[m].title)
                  /\ keywordPreviewCache[SettingFolder][a].keyword = h3s[m].title

-----------------------------------------------------------------------------
(* Vault event handlers (plugin onload), cache invalidation, and the runs   *)
(* of updateDecorations of one editor showing a manuscript document.        *)
(* A run suspended at its await is "reading" while the index build waits    *)
(* for its document reads, and "resolved" once its continuation is queued   *)
(* as a microtask; no event handler or timer runs before queued             *)
(* continuations have run.                                                  *)

\* the vault of the editor model
EditorVault ==
  (RefFile1 :> JoinLines(<<LineH1S, LineH2A, LineAliasX>>))
     @@ (RefFile2 :> JoinLines(<<LineH1S, LineH2X>>))
     @@ (NovelFile :> NovelDoc)

\* file.path.startsWith(mapping.settingFolder + "/")
underSettingFolder(path) == StartsWith(path, SettingFolder \o <<"/">>)

NoQueuedContinuation == \A r \in runs : r.stage # "resolved"

\* the check `runId !== this.updateRunId` passes every run
isLatestAlways(runId, latest) == TRUE

\* runId === this.updateRunId
isLatestRun(runId, latest) == runId = latest

\* the run record of a call of updateDecorations that reaches its await, given
\* whether the three caches hold the folder when extract... is called
newRun(cached) == [runId |-> updateRunId + 1, stage |-> IF cached THEN "resolved" ELSE "reading"]

EditorInit ==
  /\ vaultText = EditorVault
  /\ keywordsCache = << >>
  /\ keywordPreviewCache = << >>
  /\ keywordGroupCache = << >>
  /\ keywordsVersion = 0
  /\ pendingRefresh = 0
  /\ updateRunId = 1
  /\ keywordsVersionSeen = 0
  /\ decorations = [run |-> 0]
  /\ runs = { [runId |-> 1, stage |-> "reading"] }
  /\ invalidations = 0
  /\ applied = {}
  /\ discarded = {}
  /\ docText = << >> /\ kwList = << >> /\ groupMap = << >> /\ mode = "all"
  /\ punctCfg = PunctAll(FALSE) /\ ranges = << >> /\ dpc = "idle"
  /\ OrderIdle
  /\ AuxIdle

\* vault.on("modify"): under the reference folder the handler calls clearCache()
\* and schedules refreshCurrentEditor
ModifyEvent(f) ==
  /\ NoQueuedContinuation
  /\ invalidations < MaxInvalidations
  /\ IF underSettingFolder(f)
     THEN /\ keywordsCache' = << >>
          /\ keywordPreviewCache' = << >>
          /\ keywordGroupCache' = << >>
          /\ keywordsVersion' = keywordsVersion + 1
          /\ pendingRefresh' = pendingRefresh + 1
          /\ invalidations' = invalidations + 1
     ELSE UNCHANGED <<cacheVars, keywordsVersion, pendingRefresh, invalidations>>
  /\ UNCHANGED <<vaultText, updateRunId, keywordsVersionSeen, decorations, runs, applied,
                 discarded, decoVars, orderVars, auxVars>>

\* vault.on("create"): the handler updates the statistics, the document order
\* and the H3 title cache, and leaves the index and its version alone
CreateEvent(f) ==
  /\ NoQueuedContinuation
  /\ invalidations < MaxInvalidations
  /\ invalidations' = IF underSettingFolder(f) THEN invalidations + 1 ELSE invalidations
  /\ UNCHANGED <<indexVars, pendingRefresh, updateRunId, keywordsVersionSeen, decorations,
                 runs, applied, discarded, decoVars, orderVars, auxVars>>

\* vault.on("delete"): as for create
DeleteEvent(f) ==
  /\ NoQueuedContinuation
  /\ invalidations < MaxInvalidations
  /\ invalidations' = IF underSettingFolder(f) THEN invalidations + 1 ELSE invalidations
  /\ UNCHANGED <<indexVars, pendingRefresh, updateRunId, keywordsVersionSeen, decorations,
                 runs, applied, discarded, decoVars, orderVars, auxVars>>

\* vault.on("rename"): as for create, for the old and the new path
RenameEvent(f) ==
  /\ NoQueuedContinuation
  /\ invalidations < MaxInvalidations
  /\ invalidations' = IF underSettingFolder(f) THEN invalidations + 1 ELSE invalidations
  /\ UNCHANGED <<indexVars, pendingRefresh, updateRunId, keywordsVersionSeen, decorations,
                 runs, applied, discarded, decoVars, orderVars, auxVars>>

\* an explicit clearCache() call
ClearCache ==
  /\ NoQueuedContinuation
  /\ invalidations < MaxInvalidations
  /\ keywordsCache' = << >>
  /\ keywordPreviewCache' = << >>
  /\ keywordGroupCache' = << >>
  /\ keywordsVersion' = keywordsVersion + 1
  /\ invalidations' = invalidations + 1
  /\ UNCHANGED <<vaultText, pendingRefresh, updateRunId, keywordsVersionSeen, decorations,
                 runs, applied, discarded, decoVars, orderVars, auxVars>>

\* refreshCurrentEditor(): clearCache(), then a dispatch to the editor, whose
\* update() sees the new version and starts a run that finds the cache empty
refreshCurrentEditor ==
  /\ updateRunId < MaxRuns
  /\ keywordsCache' = << >>
  /\ keywordPreviewCache' = << >>
  /\ keywordGroupCache' = << >>
  /\ keywordsVersion' = keywordsVersion + 1
  /\ updateRunId' = updateRunId + 1
  /\ keywordsVersionSeen' = keywordsVersion + 1
  /\ runs' = runs \cup { newRun(FALSE) }
  /\ UNCHANGED <<vaultText, decorations, applied, discarded, decoVars, orderVars, auxVars>>

\* refreshCurrentEditor() called explicitly (tree actions, punctuation fix, start-up)
RefreshCall ==
  /\ NoQueuedContinuation
  /\ invalidations < MaxInvalidations
  /\ refreshCurrentEditor
  /\ invalidations' = invalidations + 1
  /\ UNCHANGED pendingRefresh

\* the timer set by the modify handler fires
RefreshTimer ==
  /\ NoQueuedContinuation
  /\ pendingRefresh > 0
  /\ refreshCurrentEditor
  /\ pendingRefresh' = pendingRefresh - 1
  /\ UNCHANGED invalidations

\* update(update) with update.docChanged: a run starts
DocChange ==
  /\ NoQueuedContinuation
  /\ updateRunId < MaxRuns
  /\ updateRunId' = updateRunId + 1
  /\ keywordsVersionSeen' = keywordsVersion
  /\ runs' = runs \cup { newRun(cacheHas(SettingFolder)) }
  /\ UNCHANGED <<indexVars, pendingRefresh, decorations, invalidations, applied, discarded,
                 decoVars, orderVars, auxVars>>

\* update(update) for a cursor or selection change: a run starts only when the
\* index version differs from the one seen
SelectionChange ==
  /\ NoQueuedContinuation
  /\ IF keywordsVersionSeen # keywordsVersion
     THEN /\ updateRunId < MaxRuns
          /\ updateRunId' = updateRunId + 1
          /\ keywordsVersionSeen' = keywordsVersion
          /\ runs' = runs \cup { newRun(cacheHas(SettingFolder)) }
     ELSE UNCHANGED <<updateRunId, keywordsVersionSeen, runs>>
  /\ UNCHANGED <<indexVars, pendingRefresh, decorations, invalidations, applied, discarded,
                 decoVars, orderVars, auxVars>>

\* the reads of a build complete: extractKeywordsFromSettingFolder stores the
\* index in the three caches and returns
BuildComplete(r) ==
  /\ NoQueuedContinuation
  /\ r \in runs /\ r.stage = "reading"
  /\ LET idx == builtIndex(SettingFolder)
     IN /\ keywordsCache' = (SettingFolder :> idx.keywords) @@ keywordsCache
        /\ keywordPreviewCache' = (SettingFolder :> idx.previewMap) @@ keywordPreviewCache
        /\ keywordGroupCache' = (SettingFolder :> idx.groupMap) @@ keywordGroupCache
  /\ runs' = (runs \ {r}) \cup { [r EXCEPT !.stage = "resolved"] }
  /\ UNCHANGED <<vaultText, keywordsVersion, pendingRefresh, updateRunId, keywordsVersionSeen,
                 decorations, invalidations, applied, discarded, decoVars, orderVars, auxVars>>

\* updateDecorations after its await: a run that is not the latest returns; the
\* latest one writes decorations and dispatches, and the update() of that
\* dispatch starts a new run when the index version changed during the await
Resume(r) ==
  /\ r \in runs /\ r.stage = "resolved"
  /\ IF ~isLatestRun(r.runId, updateRunId)
     THEN /\ runs' = runs \ {r}
          /\ discarded' = discarded \cup {r.runId}
          /\ UNCHANGED <<decorations, applied, updateRunId, keywordsVersionSeen>>
     ELSE /\ decorations' = [run |-> r.runId]
          /\ applied' = applied \cup { [run |-> r.runId, latest |-> updateRunId] }
          /\ UNCHANGED discarded
          /\ IF keywordsVersionSeen # keywordsVersion
             THEN /\ updateRunId < MaxRuns
                  /\ updateRunId' = updateRunId + 1
                  /\ keywordsVersionSeen' = keywordsVersion
                  /\ runs' = (runs \ {r}) \cup { newRun(cacheHas(SettingFolder)) }
             ELSE /\ runs' = runs \ {r}
                  /\ UNCHANGED <<updateRunId, keywordsVersionSeen>>
  /\ UNCHANGED <<indexVars, pendingRefresh, invalidations, decoVars, orderVars, auxVars>>

VaultFiles == { RefFile1, NovelFile }

EditorNext ==
  \/ \E f \in VaultFiles : ModifyEvent(f)
  \/ \E f \in VaultFiles : CreateEvent(f)
  \/ \E f \in VaultFiles : DeleteEvent(f)
  \/ \E f \in VaultFiles : RenameEvent(f)
  \/ ClearCache
  \/ RefreshCall
  \/ RefreshTimer
  \/ DocChange
  \/ SelectionChange
  \/ \E r \in runs : BuildComplete(r)
  \/ \E r \in runs : Resume(r)

EditorSpec == EditorInit /\ [][EditorNext]_vars

-----------------------------------------------------------------------------
(* Properties of the index version and of overlapping runs *)

\* C6: the index version never decreases, and every clearCache() call and every
\* create, modify, delete or rename event of a document under the reference
\* folder leaves it strictly greater than before.
C6_VersionStrictlyIncreases ==
  [][ /\ keywordsVersion' >= keywordsVersion
      /\ (invalidations' # invalidations => keywordsVersion' > keywordsVersion) ]_vars

\* C7: once the handlers and timers of the events have run, the index version
\* has been raised by exactly 1 for every event under the reference folder and
\* every explicit cache clear.
C7_OneIncrementPerInvalidation ==
  pendingRefresh = 0 => keywordsVersion = invalidations

\* C8: a run of updateDecorations writes decorations and dispatches only if it
\* is the latest run issued when its index build returns, and when no run is
\* suspended the decorations in place are those of the run that started last.
C8_LatestRunWins ==
  /\ \A a \in applied : a.run = a.latest
  /\ (runs = {} => decorations.run = updateRunId)

\* two runs overlapped: the older one was discarded, the newer one applied
C8_Witness ==
  /\ runs = {}
  /\ \E d \in discarded : d < updateRunId
  /\ decorations.run = updateRunId
  /\ updateRunId \in { a.run : a \in applied }

-----------------------------------------------------------------------------
(* An index build overlapping an invalidation.  Here a run is a call of     *)
(* updateDecorations suspended inside extractKeywordsFromSettingFolder at   *)
(* `await Promise.all(files.map(parseFile))`: reads[f] is Null while        *)
(* vault.read(f) has not resolved, and afterwards the text read and the     *)
(* index version at that moment.                                            *)

\* the texts a document of the reference folder is changed to
StaleTexts ==
  { JoinLines(<<LineH1S, LineH2A, LineAliasX>>), JoinLines(<<LineH1S, LineH2X>>) }

\* the document that is changed
ModifiedFiles == { RefFile1 }

\* the documents read by a build of the reference folder
BuildFiles == Range(getMarkdownFilesInFolder(SettingFolder))

\* a run that found the caches empty and issued its reads
readingRun(runId) == [runId |-> runId, reads |-> [f \in BuildFiles |-> Null]]

\* the run has every text it awaits
allRead(r) == \A f \in BuildFiles : r.reads[f] # Null

\* the index the build computes from the texts it has read
indexOfReads(r) ==
  LET files == getMarkdownFilesInFolder(SettingFolder)
  IN buildIndex([n \in 1..Len(files) |-> parseFile(files[n], r.reads[files[n]].content)])

StaleInit ==
  /\ vaultText = EditorVault
  /\ keywordsCache = << >>
  /\ keywordPreviewCache = << >>
  /\ keywordGroupCache = << >>
  /\ keywordsVersion = 0
  /\ pendingRefresh = 0
  /\ updateRunId = 1
  /\ keywordsVersionSeen = 0
  /\ decorations = [run |-> 0]
  /\ runs = { readingRun(1) }
  /\ invalidations = 0
  /\ applied = {}
  /\ discarded = {}
  /\ cacheOrigin = << >>
  /\ DecoIdle /\ OrderIdle
  /\ ParserIdle /\ FixIdle /\ HoverIdle /\ SaveIdle /\ ReadIdle
  /\ ViewIdle /\ TreeIdle /\ OrderDataIdle /\ FileOpsIdle

\* a document under the reference folder is written and vault.on("modify")
\* runs: clearCache() and setTimeout(refreshCurrentEditor, 100)
DocumentModified(f) ==
  /\ invalidations < MaxInvalidations
  /\ \E text \in StaleTexts : vaultText' = [vaultText EXCEPT ![f] = text]
  /\ keywordsCache' = << >>
  /\ keywordPreviewCache' = << >>
  /\ keywordGroupCache' = << >>
  /\ keywordsVersion' = keywordsVersion + 1
  /\ pendingRefresh' = pendingRefresh + 1
  /\ invalidations' = invalidations + 1
  /\ UNCHANGED <<updateRunId, keywordsVersionSeen, decorations, runs, applied, discarded,
                 cacheOrigin>>
  /\ UNCHANGED <<decoVars, orderVars, parserVars, fixVars, hoverVars, saveVars, readVars,
                 view, tree, orderData, fileOps>>

\* the timer of the modify handler fires: refreshCurrentEditor() clears the
\* caches and dispatches, update() sees the new version and its run issues
\* the reads of a new build
RefreshAfterModify ==
  /\ pendingRefresh > 0
  /\ updateRunId < MaxRuns
  /\ pendingRefresh' = pendingRefresh - 1
  /\ keywordsCache' = << >>
  /\ keywordPreviewCache' = << >>
  /\ keywordGroupCache' = << >>
  /\ keywordsVersion' = keywordsVersion + 1
  /\ updateRunId' = updateRunId + 1
  /\ keywordsVersionSeen' = keywordsVersion + 1
  /\ runs' = runs \cup { readingRun(updateRunId + 1) }
  /\ UNCHANGED <<vaultText, decorations, invalidations, applied, discarded, cacheOrigin>>
  /\ UNCHANGED <<decoVars, orderVars, parserVars, fixVars, hoverVars, saveVars, readVars,
                 view, tree, orderData, fileOps>>

\* update() with docChanged while the caches are empty: the run issues the
\* reads of a new build
RunStartsBuild ==
  /\ ~cacheHas(SettingFolder)
  /\ updateRunId < MaxRuns
  /\ updateRunId' = updateRunId + 1
  /\ keywordsVersionSeen' = keywordsVersion
  /\ runs' = runs \cup { readingRun(updateRunId + 1) }
  /\ UNCHANGED <<indexVars, pendingRefresh, decorations, invalidations, applied, discarded,
                 cacheOrigin>>
  /\ UNCHANGED <<decoVars, orderVars, parserVars, fixVars, hoverVars, saveVars, readVars,
                 view, tree, orderData, fileOps>>

\* vault.read(f) of a build resolves with the text the document has now
ReadResolves(r, f) ==
  /\ r \in runs
  /\ r.reads[f] = Null
  /\ runs' = (runs \ {r}) \cup
               { [r EXCEPT !.reads[f] = [content |-> vaultText[f], version |-> keywordsVersion]] }
  /\ UNCHANGED <<indexVars, pendingRefresh, updateRunId, keywordsVersionSeen, decorations,
                 invalidations, applied, discarded, cacheOrigin>>
  /\ UNCHANGED <<decoVars, orderVars, parserVars, fixVars, hoverVars, saveVars, readVars,
                 view, tree, orderData, fileOps>>

\* extractKeywordsFromSettingFolder after its await: the index of the texts
\* read is stored in the three caches
StoreIndex(r) ==
  /\ r \in runs
  /\ allRead(r)
  /\ LET idx == indexOfReads(r)
     IN /\ keywordsCache' = (SettingFolder :> idx.keywords) @@ keywordsCache
        /\ keywordPreviewCache' = (SettingFolder :> idx.previewMap) @@ keywordPreviewCache
        /\ keywordGroupCache' = (SettingFolder :> idx.groupMap) @@ keywordGroupCache
  /\ cacheOrigin' = [f \in BuildFiles |-> r.reads[f].version]
  /\ runs' = runs \ {r}
  /\ UNCHANGED <<vaultText, keywordsVersion, pendingRefresh, updateRunId, keywordsVersionSeen,
                 decorations, invalidations, applied, discarded>>
  /\ UNCHANGED <<decoVars, orderVars, parserVars, fixVars, hoverVars, saveVars, readVars,
                 view, tree, orderData, fileOps>>

StaleNext ==
  \/ \E f \in ModifiedFiles : DocumentModified(f)
  \/ RefreshAfterModify
  \/ RunStartsBuild
  \/ \E r \in runs : \E f \in BuildFiles : ReadResolves(r, f)
  \/ \E r \in runs : StoreIndex(r)

StaleSpec == StaleInit /\ [][StaleNext]_vars

-----------------------------------------------------------------------------
(* Properties of a build overlapping an invalidation *)

\* C30: an invalidation is not undone by a build in flight: whenever the
\* caches hold the folder's index, every document text that index was built
\* from was read after the last clearCache(), that is at the index version
\* in force now.
C30_NoStaleIndexAfterClear ==
  cacheHas(SettingFolder) =>
    \A f \in BuildFiles : cacheOrigin[f] = keywordsVersion

\* the index in the caches is the one a build would compute now
CacheMatchesVault ==
  cacheHas(SettingFolder) =>
    /\ keywordsCache[SettingFolder] = builtIndex(SettingFolder).keywords
    /\ keywordGroupCache[SettingFolder] = builtIndex(SettingFolder).groupMap

\* a build none of whose reads was overtaken by a clearCache() leaves the
\* index of the present texts
UndisturbedBuildIsCurrent ==
  (cacheHas(SettingFolder) /\ \A f \in BuildFiles : cacheOrigin[f] = keywordsVersion) =>
    keywordsCache[SettingFolder] = builtIndex(SettingFolder).keywords

-----------------------------------------------------------------------------
(* One editor's ViewPlugin instance over the life of its editor: the        *)
(* document shown changes, the editor is closed, update() is called for     *)
(* every transaction, and a run of updateDecorations resumes after its      *)
(* await.  Here a run carries the document it was started for.              *)

\* markdownView is null or has no file
NoFile == <<>>

NovelFile2 == <<"n", "/", "2">>

\* what the editor can show: nothing, a novel document, a reference document
ShownFiles == { NoFile, NovelFile, NovelFile2, RefFile1 }

Other == [kind |-> "other", started |-> FALSE]

\* the variables the editor life leaves alone
viewRest ==
  <<decoVars, vaultText, cacheVars, pendingRefresh, orderVars, parserVars, fixVars,
    hoverVars, saveVars, readVars, tree, orderData, cacheOrigin, fileOps>>

\* updateDecorations(view) up to its first await or return, for the document
\* the editor shows and the decorations in place: the new values of the
\* fields of the plugin value
updateDecorationsSync(shown, decos) ==
  LET runId == updateRunId + 1
  IN IF shown = NoFile
     THEN [updateRunId |-> runId, currentFile |-> view.currentFile,
           keywordsVersionSeen |-> keywordsVersionSeen, decorations |-> [run |-> 0],
           runs |-> runs]
     ELSE IF underSettingFolder(shown)
          THEN [updateRunId |-> runId, currentFile |-> shown,
                keywordsVersionSeen |-> keywordsVersion, decorations |-> [run |-> 0],
                runs |-> runs]
          ELSE [updateRunId |-> runId, currentFile |-> shown,
                keywordsVersionSeen |-> keywordsVersion, decorations |-> decos,
                runs |-> runs \cup { [runId |-> runId, file |-> shown] }]

\* the condition of update() under which it calls updateDecorations
updateStarts(docChanged) ==
  \/ docChanged
  \/ keywordsVersionSeen # keywordsVersion
  \/ view.shownFile # view.currentFile

ViewInit ==
  /\ \E shown \in ShownFiles :
       /\ view = [shownFile |-> shown, destroyed |-> FALSE,
                  currentFile |-> IF shown = NoFile THEN NoFile ELSE shown,
                  last |-> Other, prev |-> Other]
       /\ runs = IF shown = NoFile \/ underSettingFolder(shown) THEN {}
                 ELSE { [runId |-> 1, file |-> shown] }
  /\ updateRunId = 1
  /\ keywordsVersionSeen = 0
  /\ keywordsVersion = 0
  /\ decorations = [run |-> 0]
  /\ invalidations = 0
  /\ applied = {}
  /\ discarded = {}
  /\ pendingRefresh = 0
  /\ vaultText = << >>
  /\ keywordsCache = << >> /\ keywordPreviewCache = << >> /\ keywordGroupCache = << >>
  /\ DecoIdle /\ OrderIdle
  /\ ParserIdle /\ FixIdle /\ HoverIdle /\ SaveIdle /\ ReadIdle
  /\ TreeIdle /\ OrderDataIdle /\ OriginIdle /\ FileOpsIdle

\* update(update) of a transaction, with or without a change of the text
Update(docChanged) ==
  /\ ~view.destroyed
  /\ LET starts == updateStarts(docChanged)
         new == updateDecorationsSync(view.shownFile, decorations)
     IN /\ starts => updateRunId < MaxRuns
        /\ IF starts
           THEN /\ updateRunId' = new.updateRunId
                /\ keywordsVersionSeen' = new.keywordsVersionSeen
                /\ decorations' = new.decorations
                /\ runs' = new.runs
           ELSE UNCHANGED <<updateRunId, keywordsVersionSeen, decorations, runs>>
        /\ view' = [view EXCEPT !.currentFile = IF starts THEN new.currentFile ELSE @,
                                !.prev = view.last,
                                !.last = [kind |-> IF docChanged THEN "doc" ELSE "cursor",
                                          started |-> starts]]
  /\ UNCHANGED <<keywordsVersion, invalidations, applied, discarded, viewRest>>

\* the leaf of the editor opens another document, or none
SwitchDocument(f) ==
  /\ ~view.destroyed
  /\ f # view.shownFile
  /\ view' = [view EXCEPT !.shownFile = f, !.prev = view.last, !.last = Other]
  /\ UNCHANGED <<keywordsVersion, updateRunId, keywordsVersionSeen, decorations, runs,
                 invalidations, applied, discarded, viewRest>>

\* the editor is closed: destroy() runs and does nothing
CloseEditor ==
  /\ ~view.destroyed
  /\ view' = [view EXCEPT !.destroyed = TRUE, !.prev = view.last, !.last = Other]
  /\ UNCHANGED <<keywordsVersion, updateRunId, keywordsVersionSeen, decorations, runs,
                 invalidations, applied, discarded, viewRest>>

\* clearCache() raises the index version
InvalidateIndex ==
  /\ invalidations < MaxInvalidations
  /\ keywordsVersion' = keywordsVersion + 1
  /\ invalidations' = invalidations + 1
  /\ view' = [view EXCEPT !.prev = view.last, !.last = Other]
  /\ UNCHANGED <<updateRunId, keywordsVersionSeen, decorations, runs, applied, discarded,
                 viewRest>>

\* updateDecorations after its await: a run that is not the latest returns;
\* the latest one writes decorations and dispatches, and in an editor that
\* still exists the update() of that dispatch runs
ResumeRun(r) ==
  /\ r \in runs
  /\ IF r.runId # updateRunId
     THEN /\ runs' = runs \ {r}
          /\ discarded' = discarded \cup {r.runId}
          /\ view' = [view EXCEPT !.prev = view.last, !.last = Other]
          /\ UNCHANGED <<decorations, applied, updateRunId, keywordsVersionSeen>>
     ELSE /\ applied' = applied \cup { [run |-> r.runId, latest |-> updateRunId,
                                        file |-> r.file, shown |-> view.shownFile,
                                        destroyed |-> view.destroyed] }
          /\ UNCHANGED discarded
          /\ IF ~view.destroyed /\ updateStarts(FALSE)
             THEN LET new == updateDecorationsSync(view.shownFile, [run |-> r.runId])
                  IN /\ updateRunId < MaxRuns
                     /\ updateRunId' = new.updateRunId
                     /\ keywordsVersionSeen' = new.keywordsVersionSeen
                     /\ decorations' = new.decorations
                     /\ runs' = new.runs \ {r}
                     /\ view' = [view EXCEPT !.currentFile = new.currentFile,
                                             !.prev = view.last, !.last = Other]
             ELSE /\ decorations' = [run |-> r.runId]
                  /\ runs' = runs \ {r}
                  /\ view' = [view EXCEPT !.prev = view.last, !.last = Other]
                  /\ UNCHANGED <<updateRunId, keywordsVersionSeen>>
  /\ UNCHANGED <<keywordsVersion, invalidations, viewRest>>

ViewNext ==
  \/ \E docChanged \in BOOLEAN : Update(docChanged)
  \/ \E f \in ShownFiles : SwitchDocument(f)
  \/ CloseEditor
  \/ InvalidateIndex
  \/ \E r \in runs : ResumeRun(r)

ViewSpec == ViewInit /\ [][ViewNext]_vars

-----------------------------------------------------------------------------
(* Properties of the editor life *)

\* C22: a run that resumes after its await applies its ranges only if the
\* editor still exists and still shows the document the run was started
\* for; otherwise nothing is written or dispatched.
C22_AppliedToLiveSameDocument ==
  \A a \in applied : ~a.destroyed /\ a.shown = a.file

\* a run that is not the latest one never writes decorations
AppliedRunsAreLatest == \A a \in applied : a.run = a.latest

\* C23: once update() has started a recompute, an update that follows it
\* directly and only moves the cursor or selection starts no recompute,
\* whatever the editor shows.
C23_CursorStartsNoRecompute ==
  (/\ view.last.kind = "cursor"
   /\ view.prev.kind \in {"doc", "cursor"}
   /\ view.prev.started) => ~view.last.started

\* the same for an editor that shows a document and whose currentFile is that
\* document
CursorQuietWithDocument ==
  (/\ view.last.kind = "cursor"
   /\ view.prev.kind \in {"doc", "cursor"}
   /\ view.prev.started
   /\ view.shownFile # NoFile) => ~view.last.started

-----------------------------------------------------------------------------
(* The tree view: treeData is rebuilt by smartUpdate from the outlines of   *)
(* the documents, and the expanded flags are carried over by key.           *)

MaxSections == 2

\* the decimal digit of a small index
DigitChar(i) == <<"0", "1", "2", "3", "4", "5", "6", "7", "8", "9">>[i + 1]

\* createFileNode(parseResult, index): every node starts collapsed
createFileNode(parseResult, index) ==
  LET fileId == <<"f", "i", "l", "e", "-", DigitChar(index)>>
      h1Id(i) == fileId \o <<"-", "h", "1", "-", DigitChar(i - 1)>>
      h2Node(i, k) ==
        [id |-> h1Id(i) \o <<"-", "h", "2", "-", DigitChar(k - 1)>>,
         text |-> parseResult.h1List[i].h2List[k], type |-> "h2", children |-> <<>>,
         expanded |-> FALSE]
      h1Node(i) ==
        [id |-> h1Id(i), text |-> parseResult.h1List[i].text, type |-> "h1",
         children |-> [k \in 1..Len(parseResult.h1List[i].h2List) |-> h2Node(i, k)],
         expanded |-> FALSE]
  IN [id |-> fileId, type |-> "file", filePath |-> parseResult.filePath,
      children |-> [i \in 1..Len(parseResult.h1List) |-> h1Node(i)],
      expanded |-> FALSE]

\* the key of a node is its position in the tree
getNodeKeyById(node, parentKey) == node.id

\* getNodeKey(node, parentKey)
getNodeKey(node, parentKey) ==
  IF node.type = "file" THEN <<"f", "i", "l", "e", ":">> \o node.filePath
  ELSE IF node.type = "h1" THEN parentKey \o <<">", ">", "h", "1", ":">> \o node.text
  ELSE IF node.type = "h2" THEN parentKey \o <<">", ">", "h", "2", ":">> \o node.text
  ELSE node.id

\* the calls of states.set made by collectExpandedStates for the children of
\* one node, in call order
collectChildren(nodes, parentKey) ==
  LET entry(n) == IF nodes[n].children = <<>> THEN <<>>
                  ELSE << [key |-> getNodeKey(nodes[n], parentKey),
                           value |-> nodes[n].expanded] >>
  IN Flatten([n \in 1..Len(nodes) |-> entry(n)])

\* saveExpandedStates(): the Map left by collectExpandedStates(treeData, states)
saveExpandedStates(treeData) ==
  LET perFile(n) ==
        IF treeData[n].children = <<>> THEN <<>>
        ELSE << [key |-> getNodeKey(treeData[n], <<>>), value |-> treeData[n].expanded] >>
             \o collectChildren(treeData[n].children, getNodeKey(treeData[n], <<>>))
      entries == Flatten([n \in 1..Len(treeData) |-> perFile(n)])
      keys == { entries[n].key : n \in 1..Len(entries) }
  IN [k \in keys |-> entries[Max({ n \in 1..Len(entries) : entries[n].key = k })].value]

\* node.expanded after `if (savedState !== undefined) node.expanded = savedState`
appliedFlag(node, states, key) ==
  IF key \in DOMAIN states THEN states[key] ELSE node.expanded

\* restoreExpandedStates(states): applyExpandedStates over treeData
restoreExpandedStates(treeData, states) ==
  LET h2Of(node, parentKey) ==
        [node EXCEPT !.expanded = appliedFlag(node, states, getNodeKey(node, parentKey))]
      h1Of(node, parentKey) ==
        LET key == getNodeKey(node, parentKey)
        IN [node EXCEPT !.expanded = appliedFlag(node, states, key),
                        !.children = [k \in 1..Len(node.children) |->
                                        h2Of(node.children[k], key)]]
      fileOf(node) ==
        LET key == getNodeKey(node, <<>>)
        IN [node EXCEPT !.expanded = appliedFlag(node, states, key),
                        !.children = [i \in 1..Len(node.children) |->
                                        h1Of(node.children[i], key)]]
  IN [n \in 1..Len(treeData) |-> fileOf(treeData[n])]

\* parseResults.sort by fileOrder: the documents of the order first, in that
\* order, then the others in the order of the folder
sortByFileOrder(files, fileOrder) ==
  SelectSeq(fileOrder, LAMBDA f : f \in Range(files))
    \o SelectSeq(files, LAMBDA f : f \notin Range(fileOrder))

\* loadData(): treeData built from the outlines, with the stored states applied
loadData(vault, fileOrder, persistedStates) ==
  LET files == SelectSeq(<<RefFile1, RefFile2>>, LAMBDA f : f \in DOMAIN vault)
      order == IF fileOrder = <<>> THEN files ELSE fileOrder
      sorted == sortByFileOrder(files, order)
      nodes == [n \in 1..Len(sorted) |->
                  createFileNode([filePath |-> sorted[n], h1List |-> vault[sorted[n]]], n - 1)]
  IN [treeData |-> IF persistedStates = << >> THEN nodes
                   ELSE restoreExpandedStates(nodes, persistedStates),
      fileOrder |-> order]

\* smartUpdate(): the states of treeData are collected and stored, treeData is
\* rebuilt and the collected states are applied to it
smartUpdate(t, vault, fileOrder) ==
  LET expandedStates == saveExpandedStates(t.treeData)
      loaded == loadData(vault, fileOrder, expandedStates)
  IN [vault |-> vault, fileOrder |-> loaded.fileOrder,
      treeData |-> restoreExpandedStates(loaded.treeData, expandedStates),
      persisted |-> expandedStates, before |-> t.treeData, rebuilt |-> TRUE]

\* the sections of a document: titled A or B, with one entry
TreeSections ==
  { [text |-> <<"A">>, h2List |-> << <<"x">> >>], [text |-> <<"B">>, h2List |-> << <<"x">> >>] }

\* the outlines of the documents of the folder
TreeVaults ==
  { (RefFile1 :> h1) : h1 \in SeqsUpTo(TreeSections, MaxSections) }
    \cup { (RefFile1 :> h1) @@ (RefFile2 :> << [text |-> <<"A">>, h2List |-> << <<"x">> >>] >>) :
             h1 \in SeqsUpTo(TreeSections, MaxSections) }

\* the orders of the documents of a vault
FileOrders(vault) ==
  IF RefFile2 \in DOMAIN vault THEN { <<RefFile1, RefFile2>>, <<RefFile2, RefFile1>> }
  ELSE { <<RefFile1>> }

TreeInit ==
  /\ \E vault \in TreeVaults :
       tree = [vault |-> vault, fileOrder |-> loadData(vault, <<>>, << >>).fileOrder,
               treeData |-> loadData(vault, <<>>, << >>).treeData,
               persisted |-> << >>,
               before |-> <<>>, rebuilt |-> FALSE]
  /\ DecoIdle /\ IndexIdle /\ EditorIdle /\ OrderIdle
  /\ ParserIdle /\ FixIdle /\ HoverIdle /\ SaveIdle /\ ReadIdle
  /\ ViewIdle /\ OrderDataIdle /\ OriginIdle /\ FileOpsIdle

\* the variables the tree view leaves alone
treeRest ==
  <<decoVars, indexVars, editorVars, orderVars, parserVars, fixVars, hoverVars, saveVars,
    readVars, view, orderData, cacheOrigin, fileOps>>

\* toggleNode on a document node: the flag flips and the states are stored
ToggleFileNode ==
  /\ \E n \in 1..Len(tree.treeData) :
       /\ tree.treeData[n].children # <<>>
       /\ LET data == [tree.treeData EXCEPT ![n].expanded = ~@]
          IN tree' = [tree EXCEPT !.treeData = data, !.persisted = saveExpandedStates(data),
                                  !.before = <<>>, !.rebuilt = FALSE]
  /\ UNCHANGED treeRest

\* toggleNode on a section node
ToggleSectionNode ==
  /\ \E n \in 1..Len(tree.treeData) : \E i \in 1..Len(tree.treeData[n].children) :
       /\ tree.treeData[n].children[i].children # <<>>
       /\ LET data == [tree.treeData EXCEPT ![n].children[i].expanded = ~@]
          IN tree' = [tree EXCEPT !.treeData = data, !.persisted = saveExpandedStates(data),
                                  !.before = <<>>, !.rebuilt = FALSE]
  /\ UNCHANGED treeRest

\* sections or documents were reordered, inserted or deleted, and smartUpdate
\* rebuilds the tree
SmartUpdate ==
  /\ \E vault \in TreeVaults : \E fileOrder \in FileOrders(vault) :
       tree' = smartUpdate(tree, vault, fileOrder)
  /\ UNCHANGED treeRest

TreeNext ==
  \/ ToggleFileNode
  \/ ToggleSectionNode
  \/ SmartUpdate

TreeSpec == TreeInit /\ [][TreeNext]_vars

-----------------------------------------------------------------------------
(* Properties of the tree rebuild *)

\* the section nodes with children of the document at filePath in a tree
SectionNodes(treeData, filePath) ==
  UNION { { treeData[n].children[i] :
              i \in { j \in 1..Len(treeData[n].children) :
                        treeData[n].children[j].children # <<>> } } :
            n \in { m \in 1..Len(treeData) : treeData[m].filePath = filePath } }

\* the document nodes with children of a tree
FileNodes(treeData) ==
  { treeData[n] : n \in { m \in 1..Len(treeData) : treeData[m].children # <<>> } }

\* the flags of the document nodes are kept
FileFlagsKept ==
  \A old \in FileNodes(tree.before) : \A new \in FileNodes(tree.treeData) :
    new.filePath = old.filePath => new.expanded = old.expanded

UniqueTitle(treeData, f, node) ==
  \A other \in SectionNodes(treeData, f) : other.text = node.text => other = node

-----------------------------------------------------------------------------
(* The persisted document order under vault events and tree actions.  A     *)
(* tree action changes the vault at an await; the vault event of the change *)
(* is handled by the plugin, and the action continues after its await.      *)

MaxVaultOps == 3

\* the paths of the model: two in the reference folder, one outside
OrderPaths == { RefFile1, RefFile2, NovelFile }

NoCont == [op |-> "none"]

\* files.map(f => f.path) of getMarkdownFilesInFolder(folderPath)
folderFilePaths(vault) ==
  SelectSeq(getMarkdownFilesInFolder(SettingFolder), LAMBDA f : f \in vault)

\* fileOrder.splice(fileOrder.indexOf(path), 1)
spliceOut(fileOrder, path) ==
  LET index == Min({ n \in 1..Len(fileOrder) : fileOrder[n] = path })
  IN SubSeq(fileOrder, 1, index - 1) \o SubSeq(fileOrder, index + 1, Len(fileOrder))

\* fileOrder[fileOrder.indexOf(oldPath)] = newPath
replaceAtIndexOf(fileOrder, oldPath, newPath) ==
  [fileOrder EXCEPT ![Min({ n \in 1..Len(fileOrder) : fileOrder[n] = oldPath })] = newPath]

\* the handler adds the path whether or not the order has it
syncOrderOnFileCreateUnchecked(files, vault, path) ==
  IF ~underSettingFolder(path) THEN files
  ELSE IF files = <<>> THEN folderFilePaths(vault)
  ELSE Append(files, path)

\* syncOrderOnFileCreate(file): orderData.files after the handler
syncOrderOnFileCreate(files, vault, path) ==
  IF ~underSettingFolder(path) THEN files
  ELSE IF files = <<>> THEN folderFilePaths(vault)
  ELSE IF path \notin Range(files) THEN Append(files, path)
  ELSE files

\* syncOrderOnFileDelete(file): orderData.files after the handler
syncOrderOnFileDelete(files, vault, path) ==
  IF ~underSettingFolder(path) THEN files
  ELSE LET fileOrder == IF files = <<>> THEN folderFilePaths(vault) ELSE files
       IN IF path \in Range(fileOrder) THEN spliceOut(fileOrder, path) ELSE files

\* syncOrderOnFileRename(file, oldPath): orderData.files after the handler
syncOrderOnFileRename(files, vault, path, oldPath) ==
  LET wasInFolder == underSettingFolder(oldPath)
      isInFolder == underSettingFolder(path)
  IN IF ~wasInFolder /\ ~isInFolder THEN files
     ELSE IF files = <<>> THEN folderFilePaths(vault)
     ELSE IF oldPath \in Range(files)
          THEN IF isInFolder THEN replaceAtIndexOf(files, oldPath, path)
               ELSE spliceOut(files, oldPath)
          ELSE IF isInFolder THEN Append(files, path) ELSE files

\* the handler of a vault event
handleVaultEvent(files, vault, e) ==
  IF e.type = "create" THEN syncOrderOnFileCreate(files, vault, e.path)
  ELSE IF e.type = "delete" THEN syncOrderOnFileDelete(files, vault, e.path)
  ELSE syncOrderOnFileRename(files, vault, e.path, e.oldPath)

\* createFile after `await vault.create` and `await openFileWithSettings`
createFileContinue(files, vault, filePath) ==
  IF files = <<>> THEN folderFilePaths(vault) ELSE Append(files, filePath)

\* renameFile after `await fileManager.renameFile`
renameFileContinue(files, oldPath, newPath) ==
  IF oldPath \in Range(files) THEN replaceAtIndexOf(files, oldPath, newPath) ELSE files

\* deleteFile after `await fileManager.trashFile`, for the fileOrder array it
\* took before the await
deleteFileContinue(files, fileOrder, path) ==
  IF path \in Range(fileOrder) THEN spliceOut(fileOrder, path) ELSE files

\* the fileOrder array of a suspended deleteFile: orderData.files itself, or
\* an array of its own
fileOrderOf(c, files) == IF c.aliased THEN files ELSE c.own

\* a handler that finds the order empty assigns a new array to
\* orderData.files; a suspended deleteFile is left with the old, empty one
detached(c, files) ==
  IF c.op = "deleteFile" /\ c.aliased /\ files = <<>>
  THEN [c EXCEPT !.aliased = FALSE, !.own = <<>>]
  ELSE c

OrderDataInit ==
  /\ \E vault \in (SUBSET OrderPaths) \ {{}} : \E stored \in BOOLEAN :
       orderData = [files |-> IF stored THEN folderFilePaths(vault) ELSE <<>>,
                    vault |-> vault, events |-> <<>>, cont |-> NoCont,
                    deleted |-> {}, ops |-> 0]
  /\ DecoIdle /\ IndexIdle /\ EditorIdle /\ OrderIdle
  /\ ParserIdle /\ FixIdle /\ HoverIdle /\ SaveIdle /\ ReadIdle
  /\ ViewIdle /\ TreeIdle /\ OriginIdle /\ FileOpsIdle

\* the variables the order store leaves alone
orderDataRest ==
  <<decoVars, indexVars, editorVars, orderVars, parserVars, fixVars, hoverVars, saveVars,
    readVars, view, tree, cacheOrigin, fileOps>>

\* vault.create(path) : the document exists and the create event is raised
vaultCreate(od, path) ==
  [od EXCEPT !.vault = @ \cup {path}, !.deleted = @ \ {path}, !.ops = @ + 1,
             !.events = Append(@, [type |-> "create", path |-> path, oldPath |-> path])]

\* trashFile(file)
vaultDelete(od, path) ==
  [od EXCEPT !.vault = @ \ {path}, !.deleted = @ \cup {path}, !.ops = @ + 1,
             !.events = Append(@, [type |-> "delete", path |-> path, oldPath |-> path])]

\* renameFile(file, newPath)
vaultRename(od, oldPath, newPath) ==
  [od EXCEPT !.vault = (@ \ {oldPath}) \cup {newPath}, !.deleted = @ \ {newPath},
             !.ops = @ + 1,
             !.events = Append(@, [type |-> "rename", path |-> newPath, oldPath |-> oldPath])]

\* a document is created outside the tree view
VaultCreate(path) ==
  /\ orderData.ops < MaxVaultOps
  /\ path \notin orderData.vault
  /\ orderData' = vaultCreate(orderData, path)
  /\ UNCHANGED orderDataRest

\* a document is deleted outside the tree view
VaultDelete(path) ==
  /\ orderData.ops < MaxVaultOps
  /\ path \in orderData.vault
  /\ orderData' = vaultDelete(orderData, path)
  /\ UNCHANGED orderDataRest

\* a document is renamed or moved outside the tree view
VaultRename(oldPath, newPath) ==
  /\ orderData.ops < MaxVaultOps
  /\ oldPath \in orderData.vault /\ newPath \notin orderData.vault
  /\ orderData' = vaultRename(orderData, oldPath, newPath)
  /\ UNCHANGED orderDataRest

\* createFile of the tree view, up to `await this.app.vault.create`
CreateFile(filePath) ==
  /\ orderData.ops < MaxVaultOps /\ orderData.cont = NoCont
  /\ underSettingFolder(filePath) /\ filePath \notin orderData.vault
  /\ orderData' = [vaultCreate(orderData, filePath) EXCEPT
                     !.cont = [op |-> "createFile", path |-> filePath]]
  /\ UNCHANGED orderDataRest

\* renameFile of the tree view, up to `await this.app.fileManager.renameFile`
RenameFile(oldPath, newPath) ==
  /\ orderData.ops < MaxVaultOps /\ orderData.cont = NoCont
  /\ underSettingFolder(oldPath) /\ oldPath \in orderData.vault
  /\ underSettingFolder(newPath) /\ newPath \notin orderData.vault
  /\ orderData' = [vaultRename(orderData, oldPath, newPath) EXCEPT
                     !.cont = [op |-> "renameFile", path |-> oldPath, newPath |-> newPath]]
  /\ UNCHANGED orderDataRest

\* deleteFile of the tree view, up to `await this.app.fileManager.trashFile`
DeleteFile(path) ==
  /\ orderData.ops < MaxVaultOps /\ orderData.cont = NoCont
  /\ underSettingFolder(path) /\ path \in orderData.vault
  /\ orderData' = [vaultDelete(orderData, path) EXCEPT
                     !.cont = [op |-> "deleteFile", path |-> path,
                               aliased |-> orderData.files # <<>>,
                               own |-> IF orderData.files # <<>> THEN <<>>
                                       ELSE folderFilePaths(orderData.vault)]]
  /\ UNCHANGED orderDataRest

\* the suspended tree action continues after its await
TreeActionContinues ==
  /\ orderData.cont # NoCont
  /\ LET c == orderData.cont
         files == orderData.files
     IN orderData' =
          [orderData EXCEPT
             !.cont = NoCont,
             !.files = IF c.op = "createFile"
                       THEN createFileContinue(files, orderData.vault, c.path)
                       ELSE IF c.op = "renameFile"
                            THEN renameFileContinue(files, c.path, c.newPath)
                            ELSE deleteFileContinue(files, fileOrderOf(c, files), c.path)]
  /\ UNCHANGED orderDataRest

\* the plugin handles the oldest vault event
HandleVaultEvent ==
  /\ orderData.events # <<>>
  /\ orderData' =
       [orderData EXCEPT
          !.events = Tail(@),
          !.files = handleVaultEvent(@, orderData.vault, Head(orderData.events)),
          !.cont = IF underSettingFolder(Head(orderData.events).path)
                      \/ underSettingFolder(Head(orderData.events).oldPath)
                   THEN detached(@, orderData.files) ELSE @]
  /\ UNCHANGED orderDataRest

OrderDataNext ==
  \/ \E path \in OrderPaths : VaultCreate(path)
  \/ \E path \in OrderPaths : VaultDelete(path)
  \/ \E oldPath \in OrderPaths, newPath \in OrderPaths : VaultRename(oldPath, newPath)
  \/ \E path \in OrderPaths : CreateFile(path)
  \/ \E oldPath \in OrderPaths, newPath \in OrderPaths : RenameFile(oldPath, newPath)
  \/ \E path \in OrderPaths : DeleteFile(path)
  \/ TreeActionContinues
  \/ HandleVaultEvent

OrderDataSpec == OrderDataInit /\ [][OrderDataNext]_vars

-----------------------------------------------------------------------------
(* Properties of the persisted document order *)

\* every event is handled and no tree action is suspended
Quiescent == orderData.events = <<>> /\ orderData.cont = NoCont

\* no path occurs twice in a sequence of paths
NoDuplicates(files) ==
  \A m \in 1..Len(files) : \A n \in 1..Len(files) : files[m] = files[n] => m = n

\* C29: once the events are handled and the tree actions have finished, every
\* path occurs at most once in orderData.files and no deleted document's
\* path occurs in it.
C29_OrderHasNoDuplicates ==
  Quiescent =>
    /\ NoDuplicates(orderData.files)
    /\ Range(orderData.files) \cap orderData.deleted = {}

-----------------------------------------------------------------------------
(* parseMdFile *)

\* text.replace(/\r\n/g, "\n"): one pass from the left
RECURSIVE replaceCRLF(_)
replaceCRLF(text) ==
  IF text = <<>> THEN <<>>
  ELSE IF Len(text) >= 2 /\ text[1] = "\r" /\ text[2] = "\n"
       THEN <<"\n">> \o replaceCRLF(SubSeq(text, 3, Len(text)))
  ELSE <<Head(text)>> \o replaceCRLF(Tail(text))

\* s without its leading white space
RECURSIVE TrimStart(_)
TrimStart(s) == IF s # <<>> /\ IsSpace(Head(s)) THEN TrimStart(Tail(s)) ELSE s

\* s.replace(/\s+$/g, "")
RECURSIVE TrimEnd(_)
TrimEnd(s) ==
  IF s # <<>> /\ IsSpace(s[Len(s)]) THEN TrimEnd(SubSeq(s, 1, Len(s) - 1)) ELSE s

\* the backquote character, written as a token
BQ == "BQ"

\* the two tests of a code fence: optional white space, then three backquotes
\* or three tildes
isFenceLine(line) ==
  \/ StartsWith(TrimStart(line), <<BQ, BQ, BQ>>)
  \/ StartsWith(TrimStart(line), <<"~", "~", "~">>)

\* a heading of hashes or more '#' is matched as well
headingMatchAtLeast(lineTrim, hashes) ==
  LET n == Min({ k \in 0..Len(lineTrim) : k = Len(lineTrim) \/ lineTrim[k + 1] # "#" })
      rest == TrimStart(SubSeq(lineTrim, n + 1, Len(lineTrim)))
  IN [matched |-> /\ n >= hashes /\ Len(lineTrim) > n /\ IsSpace(lineTrim[n + 1])
                  /\ rest # <<>> /\ "\r" \notin Range(rest),
      title |-> rest]

\* lineTrim.match(/^#{hashes}\s+(.+?)\s*$/) for a trimmed line: exactly hashes
\* '#', white space, then a title in which '.' meets no line terminator
headingMatch(lineTrim, hashes) ==
  LET rest == TrimStart(SubSeq(lineTrim, hashes + 1, Len(lineTrim)))
  IN [matched |-> /\ Len(lineTrim) > hashes
                  /\ \A k \in 1..hashes : lineTrim[k] = "#"
                  /\ IsSpace(lineTrim[hashes + 1])
                  /\ rest # <<>> /\ "\r" \notin Range(rest),
      title |-> rest]

\* flushH2 of parseMdFile
flushH2(st) ==
  IF st.curH1 # Null /\ st.curH2 # Null
  THEN [st EXCEPT !.curH1 = [st.curH1 EXCEPT !.h2Nodes =
                                Append(@, [st.curH2 EXCEPT !.content = TrimEnd(@)])],
                  !.curH2 = Null]
  ELSE [st EXCEPT !.curH2 = Null]

\* flushH1 of parseMdFile
flushH1(st) ==
  LET f == flushH2(st)
  IN IF f.curH1 # Null
     THEN [f EXCEPT !.h1Nodes = Append(@, f.curH1), !.curH1 = Null]
     ELSE f

\* if (curH2) curH2.content += (curH2.content ? "\n" : "") + line
appendContent(st, line) ==
  IF st.curH2 = Null THEN st
  ELSE [st EXCEPT !.curH2 = [st.curH2 EXCEPT !.content =
          @ \o (IF @ # <<>> THEN <<"\n">> ELSE <<>>) \o line]]

\* an entry heading before any section opens a section without a title
onH2MatchAttach(st, title) ==
  LET f == flushH2(st)
  IN [f EXCEPT !.curH1 = IF @ = Null THEN [headerName |-> <<>>, h2Nodes |-> <<>>] ELSE @,
               !.curH2 = [headerName |-> title, content |-> <<>>]]

\* the branch `if (h2Match)`: an entry heading without an open section is
\* dropped, otherwise the open entry is flushed and a new one opened
onH2Match(st, title) ==
  IF st.curH1 = Null THEN st
  ELSE [flushH2(st) EXCEPT !.curH2 = [headerName |-> title, content |-> <<>>]]

\* one iteration of the line loop of parseMdFile, i the 0-based line index
parseMdStep(st, line, i) ==
  LET lineTrim == Trim(line)
      h1Match == headingMatch(lineTrim, 1)
      h2Match == headingMatch(lineTrim, 2)
  IN IF ~st.frontmatterDone /\ i = 0 /\ lineTrim = <<"-", "-", "-">>
     THEN [st EXCEPT !.inFrontmatter = TRUE]
     ELSE IF ~st.frontmatterDone /\ st.inFrontmatter
     THEN IF lineTrim = <<"-", "-", "-">>
          THEN [st EXCEPT !.inFrontmatter = FALSE, !.frontmatterDone = TRUE]
          ELSE st
     ELSE LET fm == [st EXCEPT !.frontmatterDone = TRUE]
          IN IF isFenceLine(line)
             THEN appendContent([fm EXCEPT !.inFenceCode = ~fm.inFenceCode], line)
             ELSE IF fm.inFenceCode THEN appendContent(fm, line)
             ELSE IF h1Match.matched
             THEN [flushH1(fm) EXCEPT !.curH1 = [headerName |-> h1Match.title,
                                                 h2Nodes |-> <<>>]]
             ELSE IF h2Match.matched THEN onH2Match(fm, h2Match.title)
             ELSE appendContent(fm, line)

RECURSIVE parseMdLoop(_, _, _)
parseMdLoop(st, lines, i) ==
  IF i >= Len(lines) THEN st
  ELSE parseMdLoop(parseMdStep(st, lines[i + 1], i), lines, i + 1)

\* parseMdFile(text): { h1Nodes }
parseMdFile(text) ==
  LET lines == SplitLines(replaceCRLF(text))
      st == parseMdLoop([h1Nodes |-> <<>>, curH1 |-> Null, curH2 |-> Null,
                         inFrontmatter |-> FALSE, frontmatterDone |-> FALSE,
                         inFenceCode |-> FALSE], lines, 0)
  IN [h1Nodes |-> flushH1(st).h1Nodes]

-----------------------------------------------------------------------------
(* Specification of the parsers: one text is drawn in ParseInit and handed  *)
(* to parseMdFile and to FileParser.parseFile.                              *)

PLineH1 == <<"#", " ", "S">>
PLineH2 == <<"#", "#", " ", "E">>
PLineOrphan == <<"#", "#", " ", "o">>
PLineText == <<"c">>
PLineH3 == <<"#", "#", "#", " ", "H">>
PLineH4 == <<"#", "#", "#", "#", " ", "K">>
PLineCR == <<"a", "\r">>
PLineCRCR == <<"a", "\r", "\r">>
PLineFence == <<BQ, BQ, BQ>>
PLineDashes == <<"-", "-", "-">>

\* texts of headings of every level and plain lines
HeadingTexts ==
  { JoinLines(ls) : ls \in SeqsUpTo({PLineH1, PLineH2, PLineOrphan, PLineText, PLineH3,
                                     PLineH4}, MaxParseLines) }

\* texts with carriage returns, code fences and front matter
RawTexts ==
  { JoinLines(ls) : ls \in SeqsUpTo({PLineH1, PLineH2, PLineText, PLineCR, PLineCRCR,
                                     PLineFence, PLineDashes}, MaxParseLines) }

\* the outline as text: a '# title' line per section, then per entry a
\* '## title' line followed by its raw content
RECURSIVE renderH2Nodes(_)
renderH2Nodes(h2Nodes) ==
  IF h2Nodes = <<>> THEN <<>>
  ELSE << <<"#", "#", " ">> \o Head(h2Nodes).headerName, Head(h2Nodes).content >>
       \o renderH2Nodes(Tail(h2Nodes))

RECURSIVE renderH1Nodes(_)
renderH1Nodes(h1Nodes) ==
  IF h1Nodes = <<>> THEN <<>>
  ELSE << <<"#", " ">> \o Head(h1Nodes).headerName >> \o renderH2Nodes(Head(h1Nodes).h2Nodes)
       \o renderH1Nodes(Tail(h1Nodes))

renderOutline(md) == JoinLines(renderH1Nodes(md.h1Nodes))

\* the sub-entries of every entry of a parsed file, in document order
h3SectionsOf(parseResult) ==
  Flatten([a \in 1..Len(parseResult.h1List) |->
            Flatten([b \in 1..Len(parseResult.h1List[a].h2List) |->
                      extractH3Sections(parseResult.h1List[a].h2List[b].content)])])

ParseInit ==
  /\ parseInput \in HeadingTexts \cup RawTexts
  /\ parseOutput = [md |-> Null, again |-> Null, file |-> Null, h3 |-> Null]
  /\ ExtraIdle /\ FixIdle /\ HoverIdle /\ SaveIdle /\ ReadIdle
  /\ IndexIdle
  /\ EditorIdle
  /\ OrderIdle
  /\ docText = << >> /\ kwList = << >> /\ groupMap = << >> /\ mode = "all"
  /\ punctCfg = PunctAll(FALSE) /\ ranges = << >> /\ dpc = "idle"

\* the text is parsed by parseMdFile, and so is the rendering of its outline
ParseMdFile ==
  /\ parseOutput.md = Null
  /\ parseOutput' = [parseOutput EXCEPT
                       !.md = parseMdFile(parseInput),
                       !.again = parseMdFile(renderOutline(parseMdFile(parseInput)))]
  /\ UNCHANGED <<extraVars, parseInput, fixVars, hoverVars, saveVars, readVars>>
  /\ UNCHANGED <<decoVars, indexVars, editorVars, orderVars>>

\* the text is parsed by FileParser.parseFile as the content of a reference
\* document, and the sub-entries of its entries are extracted
ParseFile ==
  /\ parseOutput.file = Null
  /\ parseOutput' = [parseOutput EXCEPT
                       !.file = parseFile(RefFile1, parseInput),
                       !.h3 = [sections |-> h3SectionsOf(parseFile(RefFile1, parseInput))]]
  /\ UNCHANGED <<extraVars, parseInput, fixVars, hoverVars, saveVars, readVars>>
  /\ UNCHANGED <<decoVars, indexVars, editorVars, orderVars>>

ParseNext == ParseMdFile \/ ParseFile

ParseSpec == ParseInit /\ [][ParseNext]_vars

-----------------------------------------------------------------------------
(* Properties of the parsers *)

\* C13: parseMdFile is idempotent through serialization: the outline parsed
\* from the rendering of the parsed outline equals the parsed outline, for
\* every input text.
C13_ParseIdempotent == parseOutput.md # Null => parseOutput.again = parseOutput.md

ParseLines == SplitLines(parseInput)

\* the position of the first section heading line, past the end when none
FirstSectionLine ==
  Min({ i \in 1..Len(ParseLines) : isH1Line(Trim(ParseLines[i])) } \cup {Len(ParseLines) + 1})

\* the entries of an outline of parseMdFile, in order
MdEntries(md) ==
  Flatten([a \in 1..Len(md.h1Nodes) |-> md.h1Nodes[a].h2Nodes])

\* the entries of a result of FileParser.parseFile, in order
FileEntries(parseResult) ==
  Flatten([a \in 1..Len(parseResult.h1List) |-> parseResult.h1List[a].h2List])

\* the content lines of all entries of an outline of parseMdFile
MdContentLines(md) ==
  LET es == MdEntries(md)
  IN Flatten([b \in 1..Len(es) |-> IF es[b].content = <<>> THEN <<>>
                                   ELSE SplitLines(es[b].content)])

\* the content lines of all entries of a result of FileParser.parseFile
FileContentLines(parseResult) ==
  LET es == FileEntries(parseResult)
  IN Flatten([b \in 1..Len(es) |-> es[b].content])

\* the lines '## o' and 'c' stand before the first section heading only
OrphansOnly ==
  /\ parseInput \in HeadingTexts
  /\ \A i \in 1..Len(ParseLines) :
       ParseLines[i] \in {PLineOrphan, PLineText} => i < FirstSectionLine

OrphanExample == JoinLines(<<PLineOrphan, PLineText, PLineH1, PLineH2>>)

\* C14: parsing discards orphans: an entry heading before the first section
\* heading and every line before the first section heading appear in no
\* section or entry of the result; the text '## o', 'c', '# S', '## E' parses
\* to exactly one section S with exactly one entry E.
C14_OrphansDiscarded ==
  /\ (parseOutput.md # Null /\ OrphansOnly) =>
       /\ \A e \in Range(MdEntries(parseOutput.md)) : e.headerName # <<"o">>
       /\ PLineText \notin Range(MdContentLines(parseOutput.md))
       /\ PLineOrphan \notin Range(MdContentLines(parseOutput.md))
  /\ (parseOutput.file # Null /\ OrphansOnly) =>
       /\ \A e \in Range(FileEntries(parseOutput.file)) : e.text # <<"o">>
       /\ PLineText \notin Range(FileContentLines(parseOutput.file))
       /\ PLineOrphan \notin Range(FileContentLines(parseOutput.file))
  /\ (parseOutput.md # Null /\ parseInput = OrphanExample) =>
       parseOutput.md = [h1Nodes |-> << [headerName |-> <<"S">>,
                                         h2Nodes |-> << [headerName |-> <<"E">>,
                                                         content |-> <<>>] >>] >>]
  /\ (parseOutput.file # Null /\ parseInput = OrphanExample) =>
       /\ Len(parseOutput.file.h1List) = 1
       /\ parseOutput.file.h1List[1].text = <<"S">>
       /\ Len(parseOutput.file.h1List[1].h2List) = 1
       /\ parseOutput.file.h1List[1].h2List[1].text = <<"E">>
       /\ parseOutput.file.h1List[1].h2List[1].content = <<>>

\* the example text has been parsed by both parsers
C14_Witness ==
  /\ parseInput = OrphanExample
  /\ parseOutput.md # Null /\ parseOutput.file # Null
  /\ Len(parseOutput.md.h1Nodes) = 1

\* an entry is open at line i: the last section or entry heading before it is
\* an entry heading that follows a section heading
OpenEntryAt(i) ==
  \E j \in 1..(i - 1) :
    /\ isH2Line(Trim(ParseLines[j]))
    /\ \E k \in 1..(j - 1) : isH1Line(Trim(ParseLines[k]))
    /\ \A m \in (j + 1)..(i - 1) : ~isH1Line(Trim(ParseLines[m]))

\* the number of positions of s that hold a line of S
CountIn(s, S) == Cardinality({ n \in 1..Len(s) : s[n] \in S })

\* the number of lines of three or more '#' at which an entry is open
DeepLinesInEntries ==
  Cardinality({ i \in 1..Len(ParseLines) :
                  ParseLines[i] \in {PLineH3, PLineH4} /\ OpenEntryAt(i) })

\* C15: heading levels are told apart exactly: a line that starts with three
\* or more '#' is no section or entry heading for parseMdFile and for
\* FileParser.parseFile, a line that starts with four or more '#' is no
\* sub-entry heading for extractH3Sections, and such lines are content of the
\* open entry.
C15_HeadingLevelsExact ==
  /\ (parseOutput.md # Null /\ parseInput \in HeadingTexts) =>
       /\ \A a \in 1..Len(parseOutput.md.h1Nodes) :
            parseOutput.md.h1Nodes[a].headerName = <<"S">>
       /\ \A e \in Range(MdEntries(parseOutput.md)) : e.headerName \in {<<"E">>, <<"o">>}
       /\ CountIn(MdContentLines(parseOutput.md), {PLineH3, PLineH4}) = DeepLinesInEntries
  /\ (parseOutput.file # Null /\ parseInput \in HeadingTexts) =>
       /\ \A a \in 1..Len(parseOutput.file.h1List) :
            parseOutput.file.h1List[a].text = <<"S">>
       /\ \A e \in Range(FileEntries(parseOutput.file)) : e.text \in {<<"E">>, <<"o">>}
       /\ CountIn(FileContentLines(parseOutput.file), {PLineH3, PLineH4}) = DeepLinesInEntries
       /\ \A n \in 1..Len(parseOutput.h3.sections) :
            parseOutput.h3.sections[n].title = <<"H">>

\* a text with a line of three and a line of four '#' inside an entry has been
\* parsed by both parsers
C15_Witness ==
  /\ parseInput = JoinLines(<<PLineH1, PLineH2, PLineH3, PLineH4>>)
  /\ parseOutput.md # Null /\ parseOutput.file # Null
  /\ Len(parseOutput.h3.sections) = 1

-----------------------------------------------------------------------------
(* OrderManager: rewriting the documents of the reference folder *)

\* a Map<string, string[]> is a function from its keys; map.set(key, value)
MapSet(map, key, value) ==
  [k \in (DOMAIN map) \cup {key} |-> IF k = key THEN value ELSE map[k]]

\* the title of a section heading line, trimmed.substring(2).trim()
h1TitleOf(trimmed) == Trim(SubstringFrom(trimmed, 2))

\* the title of an entry heading line, trimmed.substring(3).trim()
h2TitleOf(trimmed) == Trim(SubstringFrom(trimmed, 3))

\* one iteration of the line loop of reorderH1InFile; currentH1 is Null or
\* [text |-> title], and `if (currentH1)` is false for null and for ""
reorderH1Step(st, line) ==
  LET trimmed == Trim(line)
      hasCurrent == st.currentH1 # Null /\ st.currentH1.text # <<>>
  IN IF isH1Line(trimmed)
     THEN [h1Blocks |-> IF hasCurrent
                        THEN MapSet(st.h1Blocks, st.currentH1.text, st.currentBlock)
                        ELSE st.h1Blocks,
           beforeFirstH1 |-> IF ~hasCurrent /\ st.inFirstH1 THEN st.currentBlock
                             ELSE st.beforeFirstH1,
           inFirstH1 |-> IF ~hasCurrent /\ st.inFirstH1 THEN FALSE ELSE st.inFirstH1,
           currentH1 |-> [text |-> h1TitleOf(trimmed)],
           currentBlock |-> <<line>>]
     ELSE [st EXCEPT !.currentBlock = Append(@, line)]

RECURSIVE reorderH1Loop(_, _)
reorderH1Loop(st, lines) ==
  IF lines = <<>> THEN st
  ELSE reorderH1Loop(reorderH1Step(st, Head(lines)), Tail(lines))

\* the blocks of the titles of h1Order that the map holds, concatenated
RECURSIVE emitBlocks(_, _)
emitBlocks(h1Blocks, h1Order) ==
  IF h1Order = <<>> THEN <<>>
  ELSE (IF Head(h1Order) \in DOMAIN h1Blocks THEN h1Blocks[Head(h1Order)] ELSE <<>>)
       \o emitBlocks(h1Blocks, Tail(h1Order))

\* reorderH1InFile(filePath, h1Order): the content written to the file
reorderH1InFile(content, h1Order) ==
  LET st == reorderH1Loop([h1Blocks |-> << >>, currentH1 |-> Null, currentBlock |-> <<>>,
                           beforeFirstH1 |-> <<>>, inFirstH1 |-> TRUE],
                          SplitLines(content))
      h1Blocks == IF st.currentH1 # Null /\ st.currentH1.text # <<>>
                  THEN MapSet(st.h1Blocks, st.currentH1.text, st.currentBlock)
                  ELSE st.h1Blocks
  IN JoinLines(st.beforeFirstH1 \o emitBlocks(h1Blocks, h1Order))

\* the first loop of reorderH2InFile from 0-based index i on: the range of the
\* section titled h1Text, h1StartIndex being -1 when it is not found
RECURSIVE h1RangeLoop(_, _, _, _)
h1RangeLoop(lines, h1Text, i, st) ==
  IF i >= Len(lines) THEN st
  ELSE LET trimmed == Trim(lines[i + 1])
       IN IF lines[i + 1] = <<>> \/ ~isH1Line(trimmed)
          THEN h1RangeLoop(lines, h1Text, i + 1, st)
          ELSE IF h1TitleOf(trimmed) = h1Text
          THEN h1RangeLoop(lines, h1Text, i + 1, [st EXCEPT !.h1StartIndex = i, !.foundH1 = TRUE])
          ELSE IF st.foundH1 THEN [st EXCEPT !.h1EndIndex = i]
          ELSE h1RangeLoop(lines, h1Text, i + 1, st)

\* one iteration of the second loop of reorderH2InFile, after the heading line
reorderH2Step(st, line) ==
  LET trimmed == Trim(line)
      hasCurrent == st.currentH2 # Null /\ st.currentH2.text # <<>>
      first == ~hasCurrent /\ st.inFirstH2
  IN IF isH2Line(trimmed)
     THEN [h2Blocks |-> IF hasCurrent
                        THEN MapSet(st.h2Blocks, st.currentH2.text, st.currentBlock)
                        ELSE st.h2Blocks,
           beforeFirstH2 |-> IF first THEN st.beforeFirstH2 \o st.currentBlock
                             ELSE st.beforeFirstH2,
           inFirstH2 |-> IF first THEN FALSE ELSE st.inFirstH2,
           currentH2 |-> [text |-> h2TitleOf(trimmed)],
           currentBlock |-> <<line>>]
     ELSE [st EXCEPT !.currentBlock = Append(@, line)]

RECURSIVE reorderH2Loop(_, _)
reorderH2Loop(st, lines) ==
  IF lines = <<>> THEN st
  ELSE reorderH2Loop(reorderH2Step(st, Head(lines)), Tail(lines))

\* reorderH2InFile(filePath, h1Text, h2Order): the content written to the
\* file, the content as it is when the section is not found
reorderH2InFile(content, h1Text, h2Order) ==
  LET lines == SplitLines(content)
      r == h1RangeLoop(lines, h1Text, 0, [h1StartIndex |-> -1, h1EndIndex |-> Len(lines),
                                          foundH1 |-> FALSE])
      st == reorderH2Loop([h2Blocks |-> << >>, currentH2 |-> Null, currentBlock |-> <<>>,
                           beforeFirstH2 |-> <<lines[r.h1StartIndex + 1]>>, inFirstH2 |-> TRUE],
                          SubSeq(lines, r.h1StartIndex + 2, r.h1EndIndex))
      hasCurrent == st.currentH2 # Null /\ st.currentH2.text # <<>>
      h2Blocks == IF hasCurrent THEN MapSet(st.h2Blocks, st.currentH2.text, st.currentBlock)
                  ELSE st.h2Blocks
      beforeFirstH2 == IF hasCurrent THEN st.beforeFirstH2
                       ELSE st.beforeFirstH2 \o st.currentBlock
  IN IF r.h1StartIndex = -1 THEN content
     ELSE JoinLines(SubSeq(lines, 1, r.h1StartIndex)
                    \o beforeFirstH2 \o emitBlocks(h2Blocks, h2Order)
                    \o SubSeq(lines, r.h1EndIndex + 1, Len(lines)))

\* one iteration of the extraction loop of moveH2BetweenH1s; stop is its break
extractH2Step(st, line, sourceH1Text, h2Text) ==
  LET trimmed == Trim(line)
  IN IF isH1Line(trimmed)
     THEN LET inTargetH1 == (h1TitleOf(trimmed) = sourceH1Text)
          IN [st EXCEPT !.inTargetH1 = inTargetH1,
                        !.stop = ~inTargetH1 /\ st.inTargetH2]
     ELSE IF st.inTargetH1 /\ isH2Line(trimmed)
     THEN IF h2TitleOf(trimmed) = h2Text
          THEN [st EXCEPT !.inTargetH2 = TRUE, !.h2Block = Append(@, line)]
          ELSE IF st.inTargetH2 THEN [st EXCEPT !.stop = TRUE]
          ELSE st
     ELSE IF st.inTargetH2 THEN [st EXCEPT !.h2Block = Append(@, line)]
     ELSE st

RECURSIVE extractH2Loop(_, _, _, _)
extractH2Loop(st, lines, sourceH1Text, h2Text) ==
  IF lines = <<>> \/ st.stop THEN st
  ELSE extractH2Loop(extractH2Step(st, Head(lines), sourceH1Text, h2Text), Tail(lines),
                     sourceH1Text, h2Text)

\* the h2Block that moveH2BetweenH1s extracts from the source content
extractH2Block(sourceContent, sourceH1Text, h2Text) ==
  extractH2Loop([h2Block |-> <<>>, inTargetH1 |-> FALSE, inTargetH2 |-> FALSE,
                 stop |-> FALSE],
                SplitLines(sourceContent), sourceH1Text, h2Text).h2Block

\* one iteration of the line loop of removeH2FromFile
removeH2Step(st, line, h1Text, h2Text) ==
  LET trimmed == Trim(line)
  IN IF isH1Line(trimmed)
     THEN [newLines |-> Append(st.newLines, line),
           inTargetH1 |-> (h1TitleOf(trimmed) = h1Text),
           inTargetH2 |-> FALSE]
     ELSE IF st.inTargetH1 /\ isH2Line(trimmed)
     THEN IF h2TitleOf(trimmed) = h2Text
          THEN [st EXCEPT !.inTargetH2 = TRUE]
          ELSE [st EXCEPT !.inTargetH2 = FALSE, !.newLines = Append(@, line)]
     ELSE IF ~st.inTargetH2 THEN [st EXCEPT !.newLines = Append(@, line)]
     ELSE st

RECURSIVE removeH2Loop(_, _, _, _)
removeH2Loop(st, lines, h1Text, h2Text) ==
  IF lines = <<>> THEN st
  ELSE removeH2Loop(removeH2Step(st, Head(lines), h1Text, h2Text), Tail(lines),
                    h1Text, h2Text)

\* removeH2FromFile(filePath, h1Text, h2Text): the content written to the file
removeH2FromFile(content, h1Text, h2Text) ==
  JoinLines(removeH2Loop([newLines |-> <<>>, inTargetH1 |-> FALSE, inTargetH2 |-> FALSE],
                         SplitLines(content), h1Text, h2Text).newLines)

\* the inner loop of insertH2ToFile from 0-based index j: the index of the next
\* non-empty heading line of level 1 or 2, lines.length when there is none
RECURSIVE nextHeadingIndex(_, _)
nextHeadingIndex(lines, j) ==
  IF j >= Len(lines) THEN Len(lines)
  ELSE LET nextTrimmed == Trim(lines[j + 1])
       IN IF lines[j + 1] # <<>> /\ (isH2Line(nextTrimmed) \/ isH1Line(nextTrimmed)) THEN j
          ELSE nextHeadingIndex(lines, j + 1)

\* the outer loop of insertH2ToFile from 0-based index i: the insertIndex
RECURSIVE insertIndexOf(_, _, _, _, _, _)
insertIndexOf(lines, i, inTargetH1, h1Text, targetH2Text, insertBefore) ==
  IF i >= Len(lines) THEN Len(lines)
  ELSE LET line == lines[i + 1]
           trimmed == Trim(line)
       IN IF line = <<>>
          THEN insertIndexOf(lines, i + 1, inTargetH1, h1Text, targetH2Text, insertBefore)
          ELSE IF isH1Line(trimmed)
          THEN IF h1TitleOf(trimmed) = h1Text
               THEN insertIndexOf(lines, i + 1, TRUE, h1Text, targetH2Text, insertBefore)
               ELSE IF inTargetH1 THEN i
               ELSE insertIndexOf(lines, i + 1, inTargetH1, h1Text, targetH2Text,
                                  insertBefore)
          ELSE IF inTargetH1 /\ isH2Line(trimmed) /\ h2TitleOf(trimmed) = targetH2Text
          THEN IF insertBefore THEN i ELSE nextHeadingIndex(lines, i + 1)
          ELSE insertIndexOf(lines, i + 1, inTargetH1, h1Text, targetH2Text, insertBefore)

\* insertH2ToFile(filePath, h1Text, targetH2Text, h2Block, insertBefore): the
\* content written to the file
insertH2ToFile(content, h1Text, targetH2Text, h2Block, insertBefore) ==
  LET lines == SplitLines(content)
      insertIndex == insertIndexOf(lines, 0, FALSE, h1Text, targetH2Text, insertBefore)
  IN JoinLines(SubSeq(lines, 1, insertIndex) \o h2Block
               \o SubSeq(lines, insertIndex + 1, Len(lines)))

\* getAbstractFileByPath(path) instanceof TFile: files is path -> content of
\* the files that exist
isTFile(files, path) == path \in DOMAIN files

\* moveH2BetweenH1s past its early returns: the source is rewritten first, and
\* the target is read after that write; insertH2ToFile returns without a write
\* when the target is no file
moveH2BetweenH1s(files, sourceFilePath, sourceH1Text, targetFilePath, targetH1Text, h2Text, targetH2Text, insertBefore) ==
  LET h2Block == extractH2Block(files[sourceFilePath], sourceH1Text, h2Text)
      removed == [files EXCEPT ![sourceFilePath] =
                    removeH2FromFile(files[sourceFilePath], sourceH1Text, h2Text)]
  IN IF ~isTFile(removed, targetFilePath) THEN removed
     ELSE [removed EXCEPT ![targetFilePath] =
             insertH2ToFile(removed[targetFilePath], targetH1Text, targetH2Text, h2Block,
                            insertBefore)]

\* one iteration of the extraction loop of moveH1BetweenFiles; stop is its break
extractH1Step(st, line, h1Text) ==
  LET trimmed == Trim(line)
  IN IF isH1Line(trimmed)
     THEN IF h1TitleOf(trimmed) = h1Text
          THEN [st EXCEPT !.inTargetH1 = TRUE, !.h1Found = TRUE,
                          !.h1Block = Append(@, line)]
          ELSE IF st.inTargetH1 THEN [st EXCEPT !.stop = TRUE]
          ELSE st
     ELSE IF st.inTargetH1 THEN [st EXCEPT !.h1Block = Append(@, line)]
     ELSE st

RECURSIVE extractH1Loop(_, _, _)
extractH1Loop(st, lines, h1Text) ==
  IF lines = <<>> \/ st.stop THEN st
  ELSE extractH1Loop(extractH1Step(st, Head(lines), h1Text), Tail(lines), h1Text)

\* the h1Block and h1Found of moveH1BetweenFiles
extractH1Block(sourceContent, h1Text) ==
  extractH1Loop([h1Block |-> <<>>, h1Found |-> FALSE, inTargetH1 |-> FALSE,
                 stop |-> FALSE],
                SplitLines(sourceContent), h1Text)

\* sourceLines.filter(...) of moveH1BetweenFiles: a line stays when it is no
\* heading of the moved title and its text equals no line of h1Block
RECURSIVE filterH1Block(_, _, _)
filterH1Block(sourceLines, h1Text, h1Block) ==
  IF sourceLines = <<>> THEN <<>>
  ELSE LET line == Head(sourceLines)
           trimmed == Trim(line)
           keep == /\ ~(isH1Line(trimmed) /\ h1TitleOf(trimmed) = h1Text)
                   /\ line \notin Range(h1Block)
       IN (IF keep THEN <<line>> ELSE <<>>) \o filterH1Block(Tail(sourceLines), h1Text, h1Block)

\* the inner loop of moveH1BetweenFiles from 0-based index j: the index of the
\* next non-empty section heading line, lines.length when there is none
RECURSIVE nextH1Index(_, _)
nextH1Index(lines, j) ==
  IF j >= Len(lines) THEN Len(lines)
  ELSE IF lines[j + 1] # <<>> /\ isH1Line(Trim(lines[j + 1])) THEN j
  ELSE nextH1Index(lines, j + 1)

\* the insertIndex of moveH1BetweenFiles, scanning from 0-based index i
RECURSIVE h1InsertIndexOf(_, _, _, _)
h1InsertIndexOf(targetLines, i, targetH1Text, insertBefore) ==
  IF i >= Len(targetLines) THEN Len(targetLines)
  ELSE LET line == targetLines[i + 1]
           trimmed == Trim(line)
       IN IF line # <<>> /\ isH1Line(trimmed) /\ h1TitleOf(trimmed) = targetH1Text
          THEN IF insertBefore THEN i ELSE nextH1Index(targetLines, i + 1)
          ELSE h1InsertIndexOf(targetLines, i + 1, targetH1Text, insertBefore)

\* lines with block spliced in at 0-based index insertIndex, joined
spliceAt(lines, insertIndex, block) ==
  JoinLines(SubSeq(lines, 1, insertIndex) \o block \o SubSeq(lines, insertIndex + 1, Len(lines)))

\* moveH1BetweenFiles past its early returns (source is a file, h1Found): the
\* source is written, then the function returns when the target is no file
moveH1BetweenFiles(files, sourceFilePath, targetFilePath, h1Text, targetH1Text, insertBefore) ==
  LET sourceLines == SplitLines(files[sourceFilePath])
      h1Block == extractH1Block(files[sourceFilePath], h1Text).h1Block
      removed == [files EXCEPT ![sourceFilePath] =
                    JoinLines(filterH1Block(sourceLines, h1Text, h1Block))]
  IN IF ~isTFile(removed, targetFilePath) THEN removed
     ELSE LET targetLines == SplitLines(removed[targetFilePath])
          IN [removed EXCEPT ![targetFilePath] =
                spliceAt(targetLines, h1InsertIndexOf(targetLines, 0, targetH1Text, insertBefore),
                         h1Block)]

\* one iteration of the extraction loop of moveH1ToEndOfFile; stop is its break
extractH1ToEndStep(st, line, h1Text) ==
  LET trimmed == Trim(line)
  IN IF isH1Line(trimmed) /\ h1TitleOf(trimmed) = h1Text
     THEN [st EXCEPT !.inTargetH1 = TRUE, !.h1Block = Append(@, line)]
     ELSE IF isH1Line(trimmed) /\ st.inTargetH1 THEN [st EXCEPT !.stop = TRUE]
     ELSE IF st.inTargetH1 THEN [st EXCEPT !.h1Block = Append(@, line)]
     ELSE st

RECURSIVE extractH1ToEndLoop(_, _, _)
extractH1ToEndLoop(st, lines, h1Text) ==
  IF lines = <<>> \/ st.stop THEN st
  ELSE extractH1ToEndLoop(extractH1ToEndStep(st, Head(lines), h1Text), Tail(lines), h1Text)

\* the h1Block of moveH1ToEndOfFile
extractH1ToEndBlock(sourceContent, h1Text) ==
  extractH1ToEndLoop([h1Block |-> <<>>, inTargetH1 |-> FALSE, stop |-> FALSE],
                     SplitLines(sourceContent), h1Text).h1Block

\* one iteration of the removal loop of moveH1ToEndOfFile
removeH1Step(st, line, h1Text) ==
  LET trimmed == Trim(line)
  IN IF isH1Line(trimmed) /\ h1TitleOf(trimmed) = h1Text
     THEN [st EXCEPT !.inTargetH1 = TRUE]
     ELSE LET inTargetH1 == IF isH1Line(trimmed) THEN FALSE ELSE st.inTargetH1
          IN [newSourceLines |-> IF ~inTargetH1 THEN Append(st.newSourceLines, line)
                                 ELSE st.newSourceLines,
              inTargetH1 |-> inTargetH1]

RECURSIVE removeH1Loop(_, _, _)
removeH1Loop(st, lines, h1Text) ==
  IF lines = <<>> THEN st
  ELSE removeH1Loop(removeH1Step(st, Head(lines), h1Text), Tail(lines), h1Text)

\* sourceFilePath === targetFilePath, the first statement of moveH1ToEndOfFile
sameFile(sourceFilePath, targetFilePath) == sourceFilePath = targetFilePath

\* moveH1ToEndOfFile: the files after the call
moveH1ToEndOfFile(files, sourceFilePath, targetFilePath, h1Text) ==
  IF sameFile(sourceFilePath, targetFilePath) THEN files
  ELSE IF ~isTFile(files, sourceFilePath) THEN files
  ELSE LET h1Block == extractH1ToEndBlock(files[sourceFilePath], h1Text)
           removed == [files EXCEPT ![sourceFilePath] =
                         JoinLines(removeH1Loop([newSourceLines |-> <<>>, inTargetH1 |-> FALSE],
                                                SplitLines(files[sourceFilePath]),
                                                h1Text).newSourceLines)]
       IN IF h1Block = <<>> THEN files
          ELSE IF ~isTFile(removed, targetFilePath) THEN removed
          ELSE [removed EXCEPT ![targetFilePath] = JoinLines(SplitLines(@) \o h1Block)]

\* one iteration of the extraction loop of moveH2ToEndOfH1; stop is its break
extractH2ToEndStep(st, line, sourceH1Text, h2Text) ==
  LET trimmed == Trim(line)
  IN IF isH1Line(trimmed)
     THEN LET inTargetH1 == (h1TitleOf(trimmed) = sourceH1Text)
          IN IF ~inTargetH1 /\ st.inTargetH2
             THEN [st EXCEPT !.inTargetH1 = inTargetH1, !.stop = TRUE]
             ELSE [st EXCEPT !.inTargetH1 = inTargetH1,
                             !.inTargetH2 = IF ~inTargetH1 THEN FALSE ELSE @]
     ELSE IF st.inTargetH1 /\ isH2Line(trimmed)
     THEN IF h2TitleOf(trimmed) = h2Text
          THEN [st EXCEPT !.inTargetH2 = TRUE, !.h2Block = Append(@, line)]
          ELSE IF st.inTargetH2 THEN [st EXCEPT !.stop = TRUE]
          ELSE st
     ELSE IF st.inTargetH2 THEN [st EXCEPT !.h2Block = Append(@, line)]
     ELSE st

RECURSIVE extractH2ToEndLoop(_, _, _, _)
extractH2ToEndLoop(st, lines, sourceH1Text, h2Text) ==
  IF lines = <<>> \/ st.stop THEN st
  ELSE extractH2ToEndLoop(extractH2ToEndStep(st, Head(lines), sourceH1Text, h2Text),
                          Tail(lines), sourceH1Text, h2Text)

\* the h2Block of moveH2ToEndOfH1
extractH2ToEndBlock(sourceContent, sourceH1Text, h2Text) ==
  extractH2ToEndLoop([h2Block |-> <<>>, inTargetH1 |-> FALSE, inTargetH2 |-> FALSE,
                      stop |-> FALSE],
                     SplitLines(sourceContent), sourceH1Text, h2Text).h2Block

\* the insertIndex of moveH2ToEndOfH1, scanning from 0-based index i: the next
\* section heading after a heading of the target title
RECURSIVE endOfH1IndexOf(_, _, _, _)
endOfH1IndexOf(targetLines, i, inTarget, targetH1Text) ==
  IF i >= Len(targetLines) THEN Len(targetLines)
  ELSE LET line == targetLines[i + 1]
           trimmed == Trim(line)
       IN IF line # <<>> /\ isH1Line(trimmed)
          THEN IF h1TitleOf(trimmed) = targetH1Text
               THEN endOfH1IndexOf(targetLines, i + 1, TRUE, targetH1Text)
               ELSE IF inTarget THEN i
               ELSE endOfH1IndexOf(targetLines, i + 1, inTarget, targetH1Text)
          ELSE endOfH1IndexOf(targetLines, i + 1, inTarget, targetH1Text)

\* the check left out: no two parents count as the same
sameParentNever(sourceFilePath, sourceH1Text, targetFilePath, targetH1Text) == FALSE

\* sourceFilePath === targetFilePath && sourceH1Text === targetH1Text
sameParent(sourceFilePath, sourceH1Text, targetFilePath, targetH1Text) ==
  sourceFilePath = targetFilePath /\ sourceH1Text = targetH1Text

\* moveH2ToEndOfH1: the files after the call
moveH2ToEndOfH1(files, sourceFilePath, sourceH1Text, targetFilePath, targetH1Text, h2Text) ==
  IF ~isTFile(files, sourceFilePath) THEN files
  ELSE LET h2Block == extractH2ToEndBlock(files[sourceFilePath], sourceH1Text, h2Text)
           removed == [files EXCEPT ![sourceFilePath] =
                         removeH2FromFile(files[sourceFilePath], sourceH1Text, h2Text)]
       IN IF h2Block = <<>> THEN files
          ELSE IF sameParent(sourceFilePath, sourceH1Text, targetFilePath, targetH1Text)
          THEN files
          ELSE IF ~isTFile(removed, targetFilePath) THEN removed
          ELSE LET targetLines == SplitLines(removed[targetFilePath])
               IN [removed EXCEPT ![targetFilePath] =
                     spliceAt(targetLines, endOfH1IndexOf(targetLines, 0, FALSE, targetH1Text),
                              h2Block)]

-----------------------------------------------------------------------------
(* Specification of one OrderManager operation: the documents are drawn in   *)
(* OrderInit, one operation of the tree view rewrites them.                  *)

OrderFiles == {RefFile1, RefFile2}

OLineH1A == <<"#", " ", "A">>
OLineH1B == <<"#", " ", "B">>
OLineH2X == <<"#", "#", " ", "x">>
OLineH2Y == <<"#", "#", " ", "y">>
OLineText == <<"t">>

SectionTitles == { <<"A">>, <<"B">> }
EntryTitles == { <<"x">>, <<"y">> }

\* the documents of the first file, of at most MaxOrderLines lines
OrderDocs1 ==
  { JoinLines(ls) : ls \in SeqsUpTo({OLineH1A, OLineH1B, OLineH2X, OLineH2Y, OLineText},
                                     MaxOrderLines) }

\* the documents of the second file, of at most MaxTargetLines lines, with
\* empty lines
OrderDocs2 ==
  { JoinLines(ls) : ls \in SeqsUpTo({OLineH1B, OLineH2Y, <<>>}, MaxTargetLines) }

\* node.text of the section nodes of a file, in tree order
h1Texts(filePath, content) ==
  LET h1List == parseFile(filePath, content).h1List
  IN [i \in 1..Len(h1List) |-> h1List[i].text]

\* the orders a drag within a file can request: the texts in any order
OrdersOf(texts) ==
  { [i \in 1..Len(texts) |-> texts[p[i]]] : p \in Permutations(1..Len(texts)) }

\* the files that exist and their contents; a file shown in the tree may have
\* been deleted since the tree was drawn
OrderVaults ==
  { files \in UNION { [present -> OrderDocs1 \cup OrderDocs2] :
                         present \in (SUBSET OrderFiles) \ {{}} } :
      /\ RefFile1 \in DOMAIN files => files[RefFile1] \in OrderDocs1
      /\ RefFile2 \in DOMAIN files => files[RefFile2] \in OrderDocs2 }

OrderInit ==
  /\ orderFiles \in OrderVaults
  /\ orderBefore = orderFiles
  /\ lastOp = [op |-> "none"]
  /\ IndexIdle
  /\ EditorIdle
  /\ AuxIdle
  /\ docText = << >> /\ kwList = << >> /\ groupMap = << >> /\ mode = "all"
  /\ punctCfg = PunctAll(FALSE) /\ ranges = << >> /\ dpc = "idle"

\* a drop of a section on a section of the same file, requesting some order
\* of the section texts of the file
ReorderH1InFile(filePath) ==
  /\ isTFile(orderFiles, filePath)
  /\ \E h1Order \in OrdersOf(h1Texts(filePath, orderFiles[filePath])) :
    /\ lastOp.op = "none"
    /\ orderFiles' = [orderFiles EXCEPT ![filePath] = reorderH1InFile(@, h1Order)]
    /\ lastOp' = [op |-> "reorderH1", filePath |-> filePath, h1Order |-> h1Order]
    /\ UNCHANGED <<orderBefore, decoVars, indexVars, editorVars, auxVars>>

\* node.text of the entry nodes of the first section node titled h1Text
h2Texts(filePath, content, h1Text) ==
  LET h1List == parseFile(filePath, content).h1List
      hits == { i \in 1..Len(h1List) : h1List[i].text = h1Text }
  IN IF hits = {} THEN <<>>
     ELSE [j \in 1..Len(h1List[Min(hits)].h2List) |-> h1List[Min(hits)].h2List[j].text]

\* a drop of an entry on an entry of the same section, requesting some order
\* of the entry texts of the section
ReorderH2InFile(filePath, h1Text) ==
  /\ isTFile(orderFiles, filePath)
  /\ h1Text \in Range(h1Texts(filePath, orderFiles[filePath]))
  /\ \E h2Order \in OrdersOf(h2Texts(filePath, orderFiles[filePath], h1Text)) :
    /\ lastOp.op = "none"
    /\ orderFiles' = [orderFiles EXCEPT ![filePath] = reorderH2InFile(@, h1Text, h2Order)]
    /\ lastOp' = [op |-> "reorderH2", filePath |-> filePath, h1Text |-> h1Text,
                  h2Order |-> h2Order]
    /\ UNCHANGED <<orderBefore, decoVars, indexVars, editorVars, auxVars>>

\* a drop of an entry on an entry of another section; nothing is written when
\* the entry is not found in the source
MoveH2BetweenH1s(sourceFilePath, sourceH1Text, targetFilePath, targetH1Text, h2Text, targetH2Text, insertBefore) ==
  /\ lastOp.op = "none"
  /\ isTFile(orderFiles, sourceFilePath)
  /\ extractH2Block(orderFiles[sourceFilePath], sourceH1Text, h2Text) # <<>>
  /\ orderFiles' = moveH2BetweenH1s(orderFiles, sourceFilePath, sourceH1Text,
                                    targetFilePath, targetH1Text, h2Text, targetH2Text,
                                    insertBefore)
  /\ lastOp' = [op |-> "moveH2", sourceFilePath |-> sourceFilePath,
                sourceH1Text |-> sourceH1Text, targetFilePath |-> targetFilePath,
                targetH1Text |-> targetH1Text, h2Text |-> h2Text,
                targetH2Text |-> targetH2Text, insertBefore |-> insertBefore]
  /\ UNCHANGED <<orderBefore, decoVars, indexVars, editorVars, auxVars>>

\* a drop of a section on a section of another file; nothing is written when
\* the section is not found in the source
MoveH1BetweenFiles(sourceFilePath, targetFilePath, h1Text, targetH1Text, insertBefore) ==
  /\ lastOp.op = "none"
  /\ isTFile(orderFiles, sourceFilePath)
  /\ extractH1Block(orderFiles[sourceFilePath], h1Text).h1Found
  /\ orderFiles' = moveH1BetweenFiles(orderFiles, sourceFilePath, targetFilePath, h1Text,
                                      targetH1Text, insertBefore)
  /\ lastOp' = [op |-> "moveH1", sourceFilePath |-> sourceFilePath,
                targetFilePath |-> targetFilePath, h1Text |-> h1Text,
                targetH1Text |-> targetH1Text, insertBefore |-> insertBefore]
  /\ UNCHANGED <<orderBefore, decoVars, indexVars, editorVars, auxVars>>

\* a drop of a section on a file; the dragged node is a section of the tree
MoveH1ToEndOfFile(sourceFilePath, targetFilePath, h1Text) ==
  /\ lastOp.op = "none"
  /\ isTFile(orderFiles, sourceFilePath)
  /\ h1Text \in Range(h1Texts(sourceFilePath, orderFiles[sourceFilePath]))
  /\ orderFiles' = moveH1ToEndOfFile(orderFiles, sourceFilePath, targetFilePath, h1Text)
  /\ lastOp' = [op |-> "moveH1ToEnd", sourceFilePath |-> sourceFilePath,
                targetFilePath |-> targetFilePath, h1Text |-> h1Text]
  /\ UNCHANGED <<orderBefore, decoVars, indexVars, editorVars, auxVars>>

\* a drop of an entry on a section; nothing is written when the entry is not
\* found in the source
MoveH2ToEndOfH1(sourceFilePath, sourceH1Text, targetFilePath, targetH1Text, h2Text) ==
  /\ lastOp.op = "none"
  /\ isTFile(orderFiles, sourceFilePath)
  /\ extractH2ToEndBlock(orderFiles[sourceFilePath], sourceH1Text, h2Text) # <<>>
  /\ orderFiles' = moveH2ToEndOfH1(orderFiles, sourceFilePath, sourceH1Text, targetFilePath,
                                   targetH1Text, h2Text)
  /\ lastOp' = [op |-> "moveH2ToEnd", sourceFilePath |-> sourceFilePath,
                sourceH1Text |-> sourceH1Text, targetFilePath |-> targetFilePath,
                targetH1Text |-> targetH1Text, h2Text |-> h2Text]
  /\ UNCHANGED <<orderBefore, decoVars, indexVars, editorVars, auxVars>>

OrderNext ==
  \/ \E f \in OrderFiles : ReorderH1InFile(f)
  \/ \E f \in OrderFiles, h1 \in SectionTitles : ReorderH2InFile(f, h1)
  \/ \E sf \in OrderFiles, tf \in OrderFiles, sh \in SectionTitles, th \in SectionTitles,
        h2 \in EntryTitles, t2 \in EntryTitles, ib \in BOOLEAN :
       MoveH2BetweenH1s(sf, sh, tf, th, h2, t2, ib)
  \/ \E sf \in OrderFiles, tf \in OrderFiles, h1 \in SectionTitles, th \in SectionTitles,
        ib \in BOOLEAN :
       MoveH1BetweenFiles(sf, tf, h1, th, ib)
  \/ \E sf \in OrderFiles, tf \in OrderFiles, h1 \in SectionTitles :
       MoveH1ToEndOfFile(sf, tf, h1)
  \/ \E sf \in OrderFiles, tf \in OrderFiles, sh \in SectionTitles, th \in SectionTitles,
        h2 \in EntryTitles :
       MoveH2ToEndOfH1(sf, sh, tf, th, h2)

OrderSpec == OrderInit /\ [][OrderNext]_vars

-----------------------------------------------------------------------------
(* Properties of the OrderManager operations *)

\* the positions of the section heading lines, in order
SectionStarts(lines) ==
  SetToSortedSeq({ i \in 1..Len(lines) : isH1Line(Trim(lines[i])) })

SectionTitleAt(lines, m) == h1TitleOf(Trim(lines[SectionStarts(lines)[m]]))

\* a section block: its heading line up to the next section heading or the end
SectionBlock(lines, m) ==
  LET hs == SectionStarts(lines)
  IN SubSeq(lines, hs[m], IF m < Len(hs) THEN hs[m + 1] - 1 ELSE Len(lines))

\* the lines before the first section heading
Preamble(lines) ==
  LET hs == SectionStarts(lines)
  IN IF hs = <<>> THEN lines ELSE SubSeq(lines, 1, hs[1] - 1)

\* the texts made of the preamble and every section block once, the titles
\* of the blocks being the requested order
ReorderedTexts(content, order) ==
  LET lines == SplitLines(content)
      k == Len(SectionStarts(lines))
  IN { JoinLines(Preamble(lines) \o Flatten([m \in 1..k |-> SectionBlock(lines, p[m])])) :
         p \in { q \in Permutations(1..k) :
                   \A m \in 1..k : SectionTitleAt(lines, q[m]) = order[m] } }

\* C9: after reorderH1InFile(file, order) with order a permutation of the
\* section titles of the file, the written text is the preamble followed by
\* the section blocks in the requested order, every block with its own lines,
\* and no line is lost or duplicated.
C9_ReorderKeepsBlocks ==
  lastOp.op = "reorderH1" =>
    orderFiles[lastOp.filePath]
      \in ReorderedTexts(orderBefore[lastOp.filePath], lastOp.h1Order)

\* line i lies in a section titled h1
InSection(lines, i, h1) ==
  \E j \in 1..i :
    /\ isH1Line(Trim(lines[j])) /\ h1TitleOf(Trim(lines[j])) = h1
    /\ \A k \in (j + 1)..i : ~isH1Line(Trim(lines[k]))

\* the positions of the heading lines of the entries titled h2 in sections
\* titled h1
EntryHeads(lines, h1, h2) ==
  { i \in 1..Len(lines) :
      /\ isH2Line(Trim(lines[i])) /\ h2TitleOf(Trim(lines[i])) = h2
      /\ InSection(lines, i, h1) }

\* the last line of the entry block whose heading is line i
EntryEnd(lines, i) ==
  Min({ j \in (i + 1)..Len(lines) : isH1Line(Trim(lines[j])) \/ isH2Line(Trim(lines[j])) }
      \cup {Len(lines) + 1}) - 1

\* the documents after the block of the moved entry is taken out of the source
\* and put immediately before the heading line of the target entry
MovedBefore(files, sf, sh, tf, th, h2, t2) ==
  LET src == SplitLines(files[sf])
      i == Min(EntryHeads(src, sh, h2))
      e == EntryEnd(src, i)
      taken == [files EXCEPT ![sf] = JoinLines(SubSeq(src, 1, i - 1)
                                               \o SubSeq(src, e + 1, Len(src)))]
      tgt == SplitLines(taken[tf])
      p == Min(EntryHeads(tgt, th, t2))
  IN [taken EXCEPT ![tf] = JoinLines(SubSeq(tgt, 1, p - 1) \o SubSeq(src, i, e)
                                     \o SubSeq(tgt, p, Len(tgt)))]

\* the moved entry and the target entry exist and are two entries
MoveBeforeCase ==
  /\ lastOp.op = "moveH2" /\ lastOp.insertBefore
  /\ lastOp.targetFilePath \in DOMAIN orderBefore
  /\ EntryHeads(SplitLines(orderBefore[lastOp.sourceFilePath]), lastOp.sourceH1Text,
                lastOp.h2Text) # {}
  /\ EntryHeads(SplitLines(orderBefore[lastOp.targetFilePath]), lastOp.targetH1Text,
                lastOp.targetH2Text) # {}
  /\ <<lastOp.sourceFilePath, lastOp.sourceH1Text, lastOp.h2Text>>
       # <<lastOp.targetFilePath, lastOp.targetH1Text, lastOp.targetH2Text>>

\* C10: after moveH2BetweenH1s with insertBefore = true, when the moved entry,
\* the target section and the target entry exist, the source no longer holds
\* the block of the moved entry, the target holds it immediately before the
\* heading line of the target entry, and every other line of both texts is
\* unchanged and in its place.
C10_MoveBeforeKeepsLines ==
  MoveBeforeCase =>
    orderFiles = MovedBefore(orderBefore, lastOp.sourceFilePath, lastOp.sourceH1Text,
                             lastOp.targetFilePath, lastOp.targetH1Text, lastOp.h2Text,
                             lastOp.targetH2Text)

\* block occurs in lines as consecutive lines
IsInfix(block, lines) ==
  \E k \in 0..(Len(lines) - Len(block)) : SubSeq(lines, k + 1, k + Len(block)) = block

\* the block of the first section titled h1 of the text
FirstSectionBlock(content, h1) ==
  LET lines == SplitLines(content)
      m == Min({ n \in 1..Len(SectionStarts(lines)) : SectionTitleAt(lines, n) = h1 })
  IN SectionBlock(lines, m)

\* the block of the first entry titled h2 in a section titled h1 of the text
FirstEntryBlock(content, h1, h2) ==
  LET lines == SplitLines(content)
      i == Min(EntryHeads(lines, h1, h2))
  IN SubSeq(lines, i, EntryEnd(lines, i))

\* the block that the last operation, a move, was asked to move
MovedBlock ==
  IF lastOp.op \in {"moveH1", "moveH1ToEnd"}
  THEN FirstSectionBlock(orderBefore[lastOp.sourceFilePath], lastOp.h1Text)
  ELSE FirstEntryBlock(orderBefore[lastOp.sourceFilePath], lastOp.sourceH1Text, lastOp.h2Text)

\* C11: every cross-parent move is all-or-nothing: after the move either no
\* document is modified, or the target document exists and holds the moved
\* block; the source is never left without the block while the block is
\* inserted nowhere, also when the target document is missing.
C11_MoveAllOrNothing ==
  lastOp.op \in {"moveH1", "moveH1ToEnd", "moveH2", "moveH2ToEnd"} =>
    \/ orderFiles = orderBefore
    \/ /\ lastOp.targetFilePath \in DOMAIN orderFiles
       /\ IsInfix(MovedBlock, SplitLines(orderFiles[lastOp.targetFilePath]))

\* the last operation is an end-of-parent move whose source parent is its
\* target parent
SameParentMove ==
  \/ /\ lastOp.op = "moveH1ToEnd"
     /\ lastOp.sourceFilePath = lastOp.targetFilePath
  \/ /\ lastOp.op = "moveH2ToEnd"
     /\ lastOp.sourceFilePath = lastOp.targetFilePath
     /\ lastOp.sourceH1Text = lastOp.targetH1Text

\* C12: an end-of-parent move whose source and destination parent are the same
\* writes nothing: moveH1ToEndOfFile with the same file, and moveH2ToEndOfH1
\* with the same file and section, leave every document text unchanged.
C12_SameParentNoWrite == SameParentMove => orderFiles = orderBefore

\* an entry that is followed by another entry of its section is dropped on its
\* own section, and the text is as before
C12_Witness ==
  /\ lastOp.op = "moveH2ToEnd" /\ SameParentMove
  /\ orderFiles = orderBefore
  /\ LET lines == SplitLines(orderBefore[lastOp.sourceFilePath])
         heads == EntryHeads(lines, lastOp.sourceH1Text, lastOp.h2Text)
     IN /\ heads # {}
        /\ \E j \in 1..Len(lines) :
             /\ j > Min(heads) /\ isH2Line(Trim(lines[j]))
             /\ h2TitleOf(Trim(lines[j])) # lastOp.h2Text
             /\ InSection(lines, j, lastOp.sourceH1Text)

\* the range of the target section of reorderH2InFile: from the heading line
\* of the last section titled h1 before another section follows one titled
\* h1, up to that following section heading or the end (1-based, inclusive)
TargetSectionFirst(lines, h1) ==
  LET hs == { i \in 1..Len(lines) : isH1Line(Trim(lines[i])) }
      other == { i \in hs : /\ h1TitleOf(Trim(lines[i])) # h1
                            /\ \E j \in hs : j < i /\ h1TitleOf(Trim(lines[j])) = h1 }
      stop == Min(other \cup {Len(lines) + 1})
  IN Max({ i \in hs : i < stop /\ h1TitleOf(Trim(lines[i])) = h1 })

TargetSectionLast(lines, h1) ==
  LET hs == { i \in 1..Len(lines) : isH1Line(Trim(lines[i])) }
      other == { i \in hs : /\ h1TitleOf(Trim(lines[i])) # h1
                            /\ \E j \in hs : j < i /\ h1TitleOf(Trim(lines[j])) = h1 }
  IN Min(other \cup {Len(lines) + 1}) - 1

\* the position of the first entry heading in first..last, last + 1 when none
FirstEntryHead(lines, first, last) ==
  Min({ i \in (first + 1)..last : isH2Line(Trim(lines[i])) } \cup {last + 1})

\* C25: reordering within a parent keeps the preamble: for every text, also
\* one with no section heading, reorderH1InFile writes the lines before the
\* first section heading unchanged at the start of the output, and
\* reorderH2InFile keeps unchanged all lines outside the target section and
\* all lines between the section heading and its first entry heading.
C25_ReorderKeepsPreamble ==
  /\ lastOp.op = "reorderH1" =>
       LET before == SplitLines(orderBefore[lastOp.filePath])
           after == SplitLines(orderFiles[lastOp.filePath])
           pre == Preamble(before)
       IN /\ Len(after) >= Len(pre)
          /\ SubSeq(after, 1, Len(pre)) = pre
  /\ lastOp.op = "reorderH2" =>
       LET before == SplitLines(orderBefore[lastOp.filePath])
           after == SplitLines(orderFiles[lastOp.filePath])
           first == TargetSectionFirst(before, lastOp.h1Text)
           last == TargetSectionLast(before, lastOp.h1Text)
           head == FirstEntryHead(before, first, last)
           tail == Len(before) - last
       IN /\ Len(after) >= head - 1 + tail
          /\ SubSeq(after, 1, head - 1) = SubSeq(before, 1, head - 1)
          /\ SubSeq(after, Len(after) - tail + 1, Len(after))
               = SubSeq(before, last + 1, Len(before))

\* the lines of a text, an empty text having none
LinesOf(content) == IF content = <<>> THEN <<>> ELSE SplitLines(content)

\* the number of positions of lines that hold the line l
LineCount(lines, l) == Cardinality({ n \in 1..Len(lines) : lines[n] = l })

\* a section is moved from a document into another document that exists
MoveH1Case ==
  /\ lastOp.op = "moveH1"
  /\ lastOp.targetFilePath \in DOMAIN orderBefore
  /\ lastOp.targetFilePath # lastOp.sourceFilePath

\* the source text without the block of its first section titled h1
WithoutSectionBlock(content, h1) ==
  LET lines == SplitLines(content)
      hs == SectionStarts(lines)
      m == Min({ n \in 1..Len(hs) : SectionTitleAt(lines, n) = h1 })
      last == IF m < Len(hs) THEN hs[m + 1] - 1 ELSE Len(lines)
  IN JoinLines(SubSeq(lines, 1, hs[m] - 1) \o SubSeq(lines, last + 1, Len(lines)))

\* C24: moveH1BetweenFiles removes from the source exactly the lines of the
\* moved section's contiguous block and inserts exactly those lines in the
\* target: every source line outside the block stays, in its original order,
\* and the lines of source and target together are the same multiset before
\* and after the move (counted over the lines that are not empty, an empty
\* text being one empty line for split).
C24_MoveH1ExactBlock ==
  MoveH1Case =>
    /\ orderFiles[lastOp.sourceFilePath]
         = WithoutSectionBlock(orderBefore[lastOp.sourceFilePath], lastOp.h1Text)
    /\ \A l \in (Range(LinesOf(orderBefore[lastOp.sourceFilePath]))
                  \cup Range(LinesOf(orderFiles[lastOp.targetFilePath]))) \ { <<>> } :
         LineCount(LinesOf(orderFiles[lastOp.sourceFilePath]), l)
           + LineCount(LinesOf(orderFiles[lastOp.targetFilePath]), l)
         = LineCount(LinesOf(orderBefore[lastOp.sourceFilePath]), l)
           + LineCount(LinesOf(orderBefore[lastOp.targetFilePath]), l)

-----------------------------------------------------------------------------
(* Reorder operations overlapping on one document.  reorderH1InFile and     *)
(* reorderH2InFile suspend at `await this.app.vault.read(file)` and at      *)
(* `await this.app.vault.modify(file, newContent)`; the new text is         *)
(* computed from the text read when the read resolves.                      *)

MaxOps == 2

\* the document the operations work on, and its texts
RaceFile == RefFile1

RaceDocs ==
  { JoinLines(<<OLineH1A>> \o ls) :
      ls \in [1..(MaxOrderLines - 1) -> {OLineH1B, OLineH2X, OLineH2Y}] }

\* the text an operation computes from the text it read
newContentOf(op, content) ==
  IF op.kind = "reorderH1" THEN reorderH1InFile(content, op.order)
  ELSE reorderH2InFile(content, op.h1Text, op.order)

\* every operation started before has finished
noneInFlight == \A n \in 1..Len(fileOps) : fileOps[n].pc = "done"

RaceInit ==
  /\ orderFiles \in { (RaceFile :> d) : d \in RaceDocs }
  /\ orderBefore = orderFiles
  /\ lastOp = [op |-> "none"]
  /\ fileOps = << >>
  /\ DecoIdle /\ IndexIdle /\ EditorIdle
  /\ ParserIdle /\ FixIdle /\ HoverIdle /\ SaveIdle /\ ReadIdle
  /\ ViewIdle /\ TreeIdle /\ OrderDataIdle /\ OriginIdle

\* reorderH1InFile(filePath, h1Order) up to its vault.read, for an order of
\* the section texts the tree shows
StartReorderH1 ==
  /\ Len(fileOps) < MaxOps
  /\ \E h1Order \in OrdersOf(h1Texts(RaceFile, orderFiles[RaceFile])) :
       fileOps' = Append(fileOps, [kind |-> "reorderH1", h1Text |-> <<>>, order |-> h1Order,
                                   alone |-> noneInFlight, pc |-> "read",
                                   newContent |-> <<>>])
  /\ UNCHANGED <<orderVars, decoVars, indexVars, editorVars>>
  /\ UNCHANGED <<parserVars, fixVars, hoverVars, saveVars, readVars,
                 view, tree, orderData, cacheOrigin>>

\* reorderH2InFile(filePath, h1Text, h2Order) up to its vault.read, for an
\* order of the entry texts the tree shows under the section
StartReorderH2(h1Text) ==
  /\ Len(fileOps) < MaxOps
  /\ h1Text \in Range(h1Texts(RaceFile, orderFiles[RaceFile]))
  /\ \E h2Order \in OrdersOf(h2Texts(RaceFile, orderFiles[RaceFile], h1Text)) :
       fileOps' = Append(fileOps, [kind |-> "reorderH2", h1Text |-> h1Text, order |-> h2Order,
                                   alone |-> noneInFlight, pc |-> "read",
                                   newContent |-> <<>>])
  /\ UNCHANGED <<orderVars, decoVars, indexVars, editorVars>>
  /\ UNCHANGED <<parserVars, fixVars, hoverVars, saveVars, readVars,
                 view, tree, orderData, cacheOrigin>>

\* vault.read resolves: the operation computes its new text from the text the
\* document has now and calls vault.modify
VaultReadResolves(n) ==
  /\ n \in 1..Len(fileOps)
  /\ fileOps[n].pc = "read"
  /\ fileOps' = [fileOps EXCEPT ![n].pc = "modify",
                                ![n].newContent = newContentOf(fileOps[n], orderFiles[RaceFile])]
  /\ UNCHANGED <<orderVars, decoVars, indexVars, editorVars>>
  /\ UNCHANGED <<parserVars, fixVars, hoverVars, saveVars, readVars,
                 view, tree, orderData, cacheOrigin>>

\* vault.modify writes the text of the operation and resolves
VaultModifyResolves(n) ==
  /\ n \in 1..Len(fileOps)
  /\ fileOps[n].pc = "modify"
  /\ orderFiles' = [orderFiles EXCEPT ![RaceFile] = fileOps[n].newContent]
  /\ fileOps' = [fileOps EXCEPT ![n].pc = "done"]
  /\ UNCHANGED <<orderBefore, lastOp, decoVars, indexVars, editorVars>>
  /\ UNCHANGED <<parserVars, fixVars, hoverVars, saveVars, readVars,
                 view, tree, orderData, cacheOrigin>>

RaceNext ==
  \/ StartReorderH1
  \/ \E h1 \in SectionTitles : StartReorderH2(h1)
  \/ \E n \in 1..MaxOps : VaultReadResolves(n)
  \/ \E n \in 1..MaxOps : VaultModifyResolves(n)

RaceSpec == RaceInit /\ [][RaceNext]_vars

-----------------------------------------------------------------------------
(* Properties of overlapping operations *)

\* the text after the first n operations, run one at a time in start order
RECURSIVE oneAtATime(_)
oneAtATime(n) ==
  IF n = 0 THEN orderBefore[RaceFile]
  ELSE newContentOf(fileOps[n], oneAtATime(n - 1))

\* C21: operations on the same document are serialized: once the operations
\* started have all finished, the text of the document is the one obtained
\* by running them one at a time in the order in which they were started.
C21_OperationsSerialized ==
  noneInFlight => orderFiles[RaceFile] = oneAtATime(Len(fileOps))

\* operations each started after the ones before it had finished leave the
\* text of running them one at a time
SequentialOpsSerialized ==
  (noneInFlight /\ \A n \in 1..Len(fileOps) : fileOps[n].alone) =>
    orderFiles[RaceFile] = oneAtATime(Len(fileOps))

-----------------------------------------------------------------------------
(* The punctuation auto-fix: applyPunctuationFixes *)

\* the full-width marks, written as tokens
FWPERIOD == "FWPERIOD"
FWSEMICOLON == "FWSEMICOLON"
FWEXCLAMATION == "FWEXCLAMATION"
FWQUESTION == "FWQUESTION"
FWCOLON == "FWCOLON"

\* replaceChars(input, matcher, replacement), the matcher given as the set of
\* 0-based indexes it accepts: the text and the number of characters changed
replaceChars(input, matched, replacement) ==
  [text |-> [n \in 1..Len(input) |-> IF (n - 1) \in matched THEN replacement ELSE input[n]],
   count |-> Cardinality({ i \in matched : CharAt(input, i) # replacement })]

\* the 0-based indexes of ch in the text
indexesOf(input, ch) == { i \in 0..(Len(input) - 1) : CharAt(input, i) = ch }

\* the matcher of the period rule
periodIndexes(source) ==
  { i \in 0..(Len(source) - 1) : CharAt(source, i) = "." /\ ~isBetweenDigits(source, i) }

\* the loop of normalizeQuotePairs from index i on
RECURSIVE quotePairsLoop(_, _, _, _, _, _, _)
quotePairsLoop(chars, i, quoteChars, openQuote, closeQuote, needOpen, count) ==
  IF i >= Len(chars) THEN [text |-> chars, count |-> count]
  ELSE IF CharAt(chars, i) \notin quoteChars
       THEN quotePairsLoop(chars, i + 1, quoteChars, openQuote, closeQuote, needOpen, count)
  ELSE LET nextQuote == IF needOpen THEN openQuote ELSE closeQuote
           changed == CharAt(chars, i) # nextQuote
       IN quotePairsLoop(IF changed THEN [chars EXCEPT ![i + 1] = nextQuote] ELSE chars,
                         i + 1, quoteChars, openQuote, closeQuote, ~needOpen,
                         IF changed THEN count + 1 ELSE count)

\* the loop with needOpen toggled only where a character is replaced
RECURSIVE quotePairsLoopOnChange(_, _, _, _, _, _, _)
quotePairsLoopOnChange(chars, i, quoteChars, openQuote, closeQuote, needOpen, count) ==
  IF i >= Len(chars) THEN [text |-> chars, count |-> count]
  ELSE IF CharAt(chars, i) \notin quoteChars
       THEN quotePairsLoopOnChange(chars, i + 1, quoteChars, openQuote, closeQuote, needOpen, count)
  ELSE LET nextQuote == IF needOpen THEN openQuote ELSE closeQuote
           changed == CharAt(chars, i) # nextQuote
       IN quotePairsLoopOnChange(IF changed THEN [chars EXCEPT ![i + 1] = nextQuote] ELSE chars,
                                 i + 1, quoteChars, openQuote, closeQuote,
                                 IF changed THEN ~needOpen ELSE needOpen,
                                 IF changed THEN count + 1 ELSE count)

normalizeQuotePairsOnChange(text, quoteChars, openQuote, closeQuote) ==
  quotePairsLoopOnChange(text, 0, quoteChars, openQuote, closeQuote, TRUE, 0)

normalizeQuotePairs(text, quoteChars, openQuote, closeQuote) ==
  quotePairsLoop(text, 0, quoteChars, openQuote, closeQuote, TRUE, 0)

\* one `if (config.rule) { ... }` block: the result of the rule added to acc
applyRule(acc, on, result) ==
  IF on THEN [text |-> result.text, changedCount |-> acc.changedCount + result.count]
  ELSE acc

applyPunctuationFixes(config, text) ==
  IF ~config.enabled THEN [text |-> text, changedCount |-> 0]
  ELSE LET w0 == [text |-> text, changedCount |-> 0]
           w1 == applyRule(w0, config.comma,
                           replaceChars(w0.text, indexesOf(w0.text, ","), FWCOMMA))
           w2 == applyRule(w1, config.period,
                           replaceChars(w1.text, periodIndexes(w1.text), FWPERIOD))
           w3 == applyRule(w2, config.semicolon,
                           replaceChars(w2.text, indexesOf(w2.text, ";"), FWSEMICOLON))
           w4 == applyRule(w3, config.exclamation,
                           replaceChars(w3.text, indexesOf(w3.text, "!"), FWEXCLAMATION))
           w5 == applyRule(w4, config.question,
                           replaceChars(w4.text, indexesOf(w4.text, "?"), FWQUESTION))
           w6 == applyRule(w5, config.colon,
                           replaceChars(w5.text, indexesOf(w5.text, ":"), FWCOLON))
           w7 == applyRule(w6, config.doubleQuote,
                           normalizeQuotePairs(w6.text, {"\"", LDQ, RDQ}, LDQ, RDQ))
           w8 == applyRule(w7, config.singleQuote,
                           normalizeQuotePairs(w7.text, {"'", LSQ, RSQ}, LSQ, RSQ))
       IN w8

-----------------------------------------------------------------------------
(* Specification of the auto-fix: a text and a rule configuration are drawn *)
(* in FixInit; FixPunctuation applies the fix to the editor text.           *)

FixChars == {",", ".", "1", "\"", LDQ, RDQ, "'"}

\* the rule configurations: the comma, period and quote rules switched
\* separately, the other rules switched with the comma rule
FixConfigs ==
  { PunctAll(FALSE) } \cup
  { [enabled |-> TRUE, comma |-> c, period |-> p, colon |-> c, semicolon |-> c,
     exclamation |-> c, question |-> c, doubleQuote |-> d, singleQuote |-> q] :
      c \in BOOLEAN, p \in BOOLEAN, d \in BOOLEAN, q \in BOOLEAN }

FixInit ==
  /\ fixRuns \in { << [config |-> c, text |-> t, changedCount |-> 0] >> :
                     c \in FixConfigs, t \in SeqsUpTo(FixChars, MaxFixLen) }
  /\ ExtraIdle /\ ParserIdle /\ HoverIdle /\ SaveIdle /\ ReadIdle
  /\ DecoIdle /\ IndexIdle /\ EditorIdle /\ OrderIdle

\* fixPunctuationForActiveEditor: the fix applied to the editor text, which is
\* the output of the run before
FixPunctuation ==
  /\ Len(fixRuns) <= MaxFixRuns
  /\ LET last == fixRuns[Len(fixRuns)]
         fixed == applyPunctuationFixes(last.config, last.text)
     IN fixRuns' = Append(fixRuns, [config |-> last.config, text |-> fixed.text,
                                    changedCount |-> fixed.changedCount])
  /\ UNCHANGED <<extraVars, parserVars, hoverVars, saveVars, readVars>>
  /\ UNCHANGED <<decoVars, indexVars, editorVars, orderVars>>

FixNext == FixPunctuation

FixSpec == FixInit /\ [][FixNext]_vars

-----------------------------------------------------------------------------
(* Properties of the auto-fix *)

\* C16: the punctuation auto-fix is idempotent: for every text and every rule
\* configuration, the fix applied to its own output returns the same text and
\* reports zero changes.
C16_FixIdempotent ==
  \A n \in 3..Len(fixRuns) :
    /\ fixRuns[n].text = fixRuns[n - 1].text
    /\ fixRuns[n].changedCount = 0

\* the fix has been applied twice to a text in which the first run replaced
\* an ASCII quote and a period
C16_Witness ==
  /\ Len(fixRuns) >= 3
  /\ fixRuns[1].text = <<"\"", "1", ".", "\"">>
  /\ fixRuns[1].config = PunctAll(TRUE)
  /\ fixRuns[2].text = <<LDQ, "1", FWPERIOD, RDQ>>
  /\ fixRuns[2].changedCount = 3

-----------------------------------------------------------------------------
(* The hover preview of a tree node: showPreviewForTreeNodeAnchor *)

\* the first record of the records with the structural identity, Null when none
firstStructuralMatch(records, filePath, h1Title, h2Title) ==
  LET hits == { n \in 1..Len(records) : /\ records[n].filePath = filePath
                                        /\ records[n].h1Title = h1Title
                                        /\ records[n].h2Title = h2Title }
  IN IF hits = {} THEN Null ELSE records[Min(hits)]

\* findTreeNodePreviewData on a folder map previewMap whose keys were inserted
\* in the order of keywords; folderMap.values() iterates in that order
findTreeNodePreviewData(keywords, previewMap, filePath, h1Title, h2Title, keyword) ==
  LET records == [n \in 1..Len(keywords) |-> previewMap[keywords[n]]]
      found == firstStructuralMatch(records, filePath, h1Title, h2Title)
  IN IF found # Null THEN found
     ELSE IF keyword \in DOMAIN previewMap THEN previewMap[keyword]
     ELSE Null

\* the nodes of the tree view that stand for an Entry: file, section and
\* entry title of every entry of the reference documents
treeEntryNodes ==
  LET files == getMarkdownFilesInFolder(SettingFolder)
      parsed == [n \in 1..Len(files) |-> parseFile(files[n], vaultText[files[n]])]
  IN UNION { UNION { { [hovered |-> TRUE, filePath |-> parsed[n].filePath,
                        h1Title |-> parsed[n].h1List[a].text,
                        h2Title |-> parsed[n].h1List[a].h2List[b].text] :
                         b \in 1..Len(parsed[n].h1List[a].h2List) } :
                     a \in 1..Len(parsed[n].h1List) } :
             n \in 1..Len(parsed) }

-----------------------------------------------------------------------------
(* Specification of the hover preview: the reference documents are drawn in *)
(* HoverInit, the pointer then rests on one entry node of the tree view.    *)

\* the documents offered for the second reference file
HoverDocs2 == RefDocs2 \cup { JoinLines(<<LineH1S, LineH2X, LineH3Y>>) }

HoverInit ==
  /\ vaultText \in { (RefFile1 :> d1) @@ (RefFile2 :> d2) @@ (NovelFile :> NovelDoc) :
                        d1 \in RefDocs, d2 \in HoverDocs2 }
  /\ keywordsCache = << >>
  /\ keywordPreviewCache = << >>
  /\ keywordGroupCache = << >>
  /\ keywordsVersion = 0
  /\ hoverNode = [hovered |-> FALSE]
  /\ hoverResult = [shown |-> FALSE]
  /\ ExtraIdle /\ ParserIdle /\ FixIdle /\ SaveIdle /\ ReadIdle
  /\ DecoIdle /\ EditorIdle /\ OrderIdle

\* showPreviewForTreeNodeAnchor for an entry node whose dataset holds no
\* keyword of its own: the index is built and cached, then the record looked up
ShowPreviewForTreeNodeAnchor ==
  /\ ~hoverNode.hovered
  /\ \E node \in treeEntryNodes :
       LET idx == builtIndex(SettingFolder)
           keywords == IF cacheHas(SettingFolder) THEN keywordsCache[SettingFolder]
                       ELSE idx.keywords
           previewMap == IF cacheHas(SettingFolder) THEN keywordPreviewCache[SettingFolder]
                         ELSE idx.previewMap
           groupMapOf == IF cacheHas(SettingFolder) THEN keywordGroupCache[SettingFolder]
                         ELSE idx.groupMap
       IN /\ node.h2Title # <<>>
          /\ keywordsCache' = (SettingFolder :> keywords) @@ keywordsCache
          /\ keywordPreviewCache' = (SettingFolder :> previewMap) @@ keywordPreviewCache
          /\ keywordGroupCache' = (SettingFolder :> groupMapOf) @@ keywordGroupCache
          /\ hoverNode' = node
          /\ hoverResult' = [shown |-> TRUE,
                             previewData |-> findTreeNodePreviewData(keywords, previewMap,
                                               node.filePath, node.h1Title, node.h2Title,
                                               node.h2Title)]
  /\ UNCHANGED <<vaultText, keywordsVersion>>
  /\ UNCHANGED <<extraVars, parserVars, fixVars, saveVars, readVars>>
  /\ UNCHANGED <<decoVars, editorVars, orderVars>>

HoverNext == ShowPreviewForTreeNodeAnchor

HoverSpec == HoverInit /\ [][HoverNext]_vars

-----------------------------------------------------------------------------
(* Properties of the hover preview *)

\* C18: for a hovered node carrying file, section and entry of an Entry of
\* the reference folder, the record returned by findTreeNodePreviewData has
\* exactly that file, section title and entry title and describes that
\* Entry, also when another Entry has the same title.
C18_HoverFindsHoveredEntry ==
  hoverResult.shown =>
    /\ hoverResult.previewData # Null
    /\ hoverResult.previewData.filePath = hoverNode.filePath
    /\ hoverResult.previewData.h1Title = hoverNode.h1Title
    /\ hoverResult.previewData.h2Title = hoverNode.h2Title
    /\ hoverResult.previewData.keyword = Trim(hoverNode.h2Title)

-----------------------------------------------------------------------------
(* OrderManager: the persisted order/expansion store.  A call of saveNow is *)
(* "waiting" on its 100 ms retry timer, "exists" while it awaits            *)
(* adapter.exists of the store, "mkdir" while it awaits the checks of the   *)
(* parent directory, "writing" while its adapter.write is in flight, and    *)
(* "done" after its finally block.                                          *)

\* the call goes on to its write whatever the flag says
enterSaveNowUnchecked(saving) == [pc |-> "exists", isSaving |-> TRUE]

\* the synchronous start of saveNow: with the flag set the call waits on a
\* retry timer, otherwise it sets the flag and awaits adapter.exists
enterSaveNow(saving) ==
  IF saving THEN [pc |-> "waiting", isSaving |-> TRUE]
  ELSE [pc |-> "exists", isSaving |-> TRUE]

\* clearTimeout(this.saveTimeout): the pending timer of request q, if there
\* is one, will never run its callback
clearTimeout(requests, q) ==
  IF q = 0 THEN requests ELSE [requests EXCEPT ![q].timerCleared = TRUE]

\* `await this.saveNow(); resolve();` in the timer callback of request q (0
\* for the call made by load, which resolves no promise of save)
resolveAfterSaveNow(requests, q) ==
  IF q = 0 THEN requests ELSE [requests EXCEPT ![q].resolved = TRUE]

\* the calls of saveNow that stand at pc
callsAt(pc) == { id \in 1..Len(saveCalls) : saveCalls[id].pc = pc }

SaveInit ==
  /\ isSaving = FALSE
  /\ saveTimeout = 0
  /\ saveCalls = << >>
  /\ writesInFlight = {}
  /\ maxInFlight = 0
  /\ saveRequests = << >>
  /\ ExtraIdle /\ ParserIdle /\ FixIdle /\ HoverIdle /\ ReadIdle
  /\ DecoIdle /\ IndexIdle /\ EditorIdle /\ OrderIdle

\* save(): a pending debounce timer is cleared and a new one set; the promise
\* returned is resolved by the callback of the new timer only.  saveTimeout
\* holds the request whose timer is pending, 0 when none is
Save ==
  /\ Len(saveRequests) < MaxSaveCalls
  /\ saveRequests' = Append(clearTimeout(saveRequests, saveTimeout),
                            [resolved |-> FALSE, timerCleared |-> FALSE])
  /\ saveTimeout' = Len(saveRequests) + 1
  /\ UNCHANGED <<isSaving, saveCalls, writesInFlight, maxInFlight>>
  /\ UNCHANGED <<extraVars, parserVars, fixVars, hoverVars, readVars>>
  /\ UNCHANGED <<decoVars, indexVars, editorVars, orderVars>>

\* the debounce timer fires: its callback calls saveNow
DebounceTimerFires ==
  /\ saveTimeout # 0
  /\ saveTimeout' = 0
  /\ saveCalls' = Append(saveCalls, [origin |-> "save", request |-> saveTimeout,
                                     pc |-> enterSaveNow(isSaving).pc])
  /\ isSaving' = enterSaveNow(isSaving).isSaving
  /\ UNCHANGED <<writesInFlight, maxInFlight, saveRequests>>
  /\ UNCHANGED <<extraVars, parserVars, fixVars, hoverVars, readVars>>
  /\ UNCHANGED <<decoVars, indexVars, editorVars, orderVars>>

\* load() has read a legacy file and calls saveNow to write the new store
LoadMigration ==
  /\ \A id \in 1..Len(saveCalls) : saveCalls[id].origin # "load"
  /\ saveCalls' = Append(saveCalls, [origin |-> "load", request |-> 0,
                                     pc |-> enterSaveNow(isSaving).pc])
  /\ isSaving' = enterSaveNow(isSaving).isSaving
  /\ UNCHANGED <<saveTimeout, writesInFlight, maxInFlight, saveRequests>>
  /\ UNCHANGED <<extraVars, parserVars, fixVars, hoverVars, readVars>>
  /\ UNCHANGED <<decoVars, indexVars, editorVars, orderVars>>

\* the retry timer of a waiting call fires: `return this.saveNow()`
RetryTimerFires ==
  /\ \E id \in callsAt("waiting") :
       /\ saveCalls' = [saveCalls EXCEPT ![id].pc = enterSaveNow(isSaving).pc]
       /\ isSaving' = enterSaveNow(isSaving).isSaving
  /\ UNCHANGED <<saveTimeout, writesInFlight, maxInFlight, saveRequests>>
  /\ UNCHANGED <<extraVars, parserVars, fixVars, hoverVars, readVars>>
  /\ UNCHANGED <<decoVars, indexVars, editorVars, orderVars>>

\* adapter.exists(viewDataFilePath) resolves: the store exists and the write
\* is issued, or it does not and the parent directory is checked first
ExistsResolves ==
  /\ \E id \in callsAt("exists") : \E exists \in BOOLEAN :
       /\ saveCalls' = [saveCalls EXCEPT ![id].pc = IF exists THEN "writing" ELSE "mkdir"]
       /\ writesInFlight' = IF exists THEN writesInFlight \cup {id} ELSE writesInFlight
       /\ maxInFlight' = IF exists THEN Max({maxInFlight, Cardinality(writesInFlight \cup {id})})
                         ELSE maxInFlight
  /\ UNCHANGED <<isSaving, saveTimeout, saveRequests>>
  /\ UNCHANGED <<extraVars, parserVars, fixVars, hoverVars, readVars>>
  /\ UNCHANGED <<decoVars, indexVars, editorVars, orderVars>>

\* the checks of the parent directory resolve and the write is issued
MkdirResolves ==
  /\ \E id \in callsAt("mkdir") :
       /\ saveCalls' = [saveCalls EXCEPT ![id].pc = "writing"]
       /\ writesInFlight' = writesInFlight \cup {id}
       /\ maxInFlight' = Max({maxInFlight, Cardinality(writesInFlight \cup {id})})
  /\ UNCHANGED <<isSaving, saveTimeout, saveRequests>>
  /\ UNCHANGED <<extraVars, parserVars, fixVars, hoverVars, readVars>>
  /\ UNCHANGED <<decoVars, indexVars, editorVars, orderVars>>

\* adapter.write resolves or rejects; the finally block clears the flag
WriteFinishes ==
  /\ \E id \in callsAt("writing") :
       /\ saveCalls' = [saveCalls EXCEPT ![id].pc = "done"]
       /\ writesInFlight' = writesInFlight \ {id}
       /\ saveRequests' = resolveAfterSaveNow(saveRequests, saveCalls[id].request)
  /\ isSaving' = FALSE
  /\ UNCHANGED <<saveTimeout, maxInFlight>>
  /\ UNCHANGED <<extraVars, parserVars, fixVars, hoverVars, readVars>>
  /\ UNCHANGED <<decoVars, indexVars, editorVars, orderVars>>

\* adapter.exists or adapter.mkdir rejects: catch, then the finally block
AdapterThrows ==
  /\ \E id \in callsAt("exists") \cup callsAt("mkdir") :
       /\ saveCalls' = [saveCalls EXCEPT ![id].pc = "done"]
       /\ saveRequests' = resolveAfterSaveNow(saveRequests, saveCalls[id].request)
  /\ isSaving' = FALSE
  /\ UNCHANGED <<saveTimeout, writesInFlight, maxInFlight>>
  /\ UNCHANGED <<extraVars, parserVars, fixVars, hoverVars, readVars>>
  /\ UNCHANGED <<decoVars, indexVars, editorVars, orderVars>>

SaveNext ==
  \/ Save
  \/ DebounceTimerFires
  \/ LoadMigration
  \/ RetryTimerFires
  \/ ExistsResolves
  \/ MkdirResolves
  \/ WriteFinishes
  \/ AdapterThrows

SaveSpec == SaveInit /\ [][SaveNext]_vars

\* timers fire and the promises of the adapter settle
SaveFairness ==
  /\ WF_vars(DebounceTimerFires)
  /\ WF_vars(RetryTimerFires)
  /\ WF_vars(ExistsResolves \/ AdapterThrows)
  /\ WF_vars(MkdirResolves \/ AdapterThrows)
  /\ WF_vars(WriteFinishes)

SaveLiveSpec == SaveInit /\ [][SaveNext]_vars /\ SaveFairness

-----------------------------------------------------------------------------
(* Properties of the persisted store *)

\* C19: at any time at most one write of the persisted store is in flight: a
\* saveNow that starts while isSaving is set issues no adapter.write until
\* the write in flight has finished and cleared the flag, for every
\* interleaving of save() calls, debounce timers and the migration write.
C19_OneWriteInFlight ==
  /\ Cardinality(writesInFlight) <= 1
  /\ maxInFlight <= 1
  /\ writesInFlight # {} => isSaving
  /\ Cardinality(callsAt("exists") \cup callsAt("mkdir") \cup callsAt("writing")) <= 1

\* a call of saveNow that started while the flag was set waits while the
\* write of another call is in flight, after an earlier write has finished
C19_Witness ==
  /\ callsAt("waiting") # {}
  /\ writesInFlight # {}
  /\ callsAt("done") # {}
  /\ \E id \in 1..Len(saveCalls) : saveCalls[id].origin = "load"

\* C28: every call of save() eventually resolves its promise, also when a
\* later save() is called while its debounce timer is pending and clears
\* that timer; no caller awaiting a save is blocked forever.
C28_EverySaveResolves ==
  \A q \in 1..MaxSaveCalls :
    (Len(saveRequests) >= q) ~> (Len(saveRequests) >= q /\ saveRequests[q].resolved)

\* the requests whose timer was cleared by a later save()
cancelledRequests ==
  { q \in 1..Len(saveRequests) : saveRequests[q].timerCleared }

\* a request whose timer was never cleared is resolved once its callback has
\* run saveNow to its end
UncancelledSavesResolve ==
  \A q \in 1..MaxSaveCalls :
    (Len(saveRequests) >= q /\ ~saveRequests[q].timerCleared /\ saveTimeout # q)
      ~> (Len(saveRequests) >= q /\ saveRequests[q].resolved)

\* no promise of a cancelled request is ever resolved
CancelledNeverResolved ==
  \A q \in cancelledRequests : ~saveRequests[q].resolved

-----------------------------------------------------------------------------
(* The parallel document reads of extractKeywordsFromSettingFolder *)

\* the results are merged in the order in which the reads completed
parsedListOrderByCompletion(files, completed) == completed

\* Promise.all(files.map(parseFile)): the results in the order of files,
\* whatever the order in which the reads completed
parsedListOrder(files, completed) == files

\* the index built after the reads completed in the order given
indexAfterReads(settingFolder, completed) ==
  LET files == parsedListOrder(getMarkdownFilesInFolder(settingFolder), completed)
  IN buildIndex([n \in 1..Len(files) |-> parseFile(files[n], vaultText[files[n]])])

-----------------------------------------------------------------------------
(* Specification of an index build whose document reads complete in any     *)
(* order: the reference documents are drawn in ReadInit.                    *)

ReadInit ==
  /\ vaultText \in { (RefFile1 :> d1) @@ (RefFile2 :> d2) @@ (NovelFile :> NovelDoc) :
                        d1 \in RefDocs, d2 \in RefDocs2 }
  /\ keywordsCache = << >>
  /\ keywordPreviewCache = << >>
  /\ keywordGroupCache = << >>
  /\ keywordsVersion = 0
  /\ readsPending = {}
  /\ completionOrder = << >>
  /\ ExtraIdle /\ ParserIdle /\ FixIdle /\ HoverIdle /\ SaveIdle
  /\ DecoIdle /\ EditorIdle /\ OrderIdle

\* extractKeywordsFromSettingFolder on a cache miss: files.map(parseFile)
\* starts the read of every document of the folder
StartReads ==
  /\ ~cacheHas(SettingFolder)
  /\ readsPending = {} /\ completionOrder = << >>
  /\ readsPending' = Range(getMarkdownFilesInFolder(SettingFolder))
  /\ UNCHANGED <<completionOrder, indexVars>>
  /\ UNCHANGED <<extraVars, parserVars, fixVars, hoverVars, saveVars>>
  /\ UNCHANGED <<decoVars, editorVars, orderVars>>

\* vault.read of one document resolves and parseFile returns its result
ReadCompletes ==
  /\ \E f \in readsPending :
       /\ readsPending' = readsPending \ {f}
       /\ completionOrder' = Append(completionOrder, f)
  /\ UNCHANGED indexVars
  /\ UNCHANGED <<extraVars, parserVars, fixVars, hoverVars, saveVars>>
  /\ UNCHANGED <<decoVars, editorVars, orderVars>>

\* Promise.all resolves: the results are merged and the index cached
MergeResults ==
  /\ ~cacheHas(SettingFolder)
  /\ readsPending = {} /\ completionOrder # << >>
  /\ LET idx == indexAfterReads(SettingFolder, completionOrder)
     IN /\ keywordsCache' = (SettingFolder :> idx.keywords) @@ keywordsCache
        /\ keywordPreviewCache' = (SettingFolder :> idx.previewMap) @@ keywordPreviewCache
        /\ keywordGroupCache' = (SettingFolder :> idx.groupMap) @@ keywordGroupCache
  /\ UNCHANGED <<vaultText, keywordsVersion, readVars>>
  /\ UNCHANGED <<extraVars, parserVars, fixVars, hoverVars, saveVars>>
  /\ UNCHANGED <<decoVars, editorVars, orderVars>>

ReadNext ==
  \/ StartReads
  \/ ReadCompletes
  \/ MergeResults

ReadSpec == ReadInit /\ [][ReadNext]_vars

-----------------------------------------------------------------------------
(* Properties of the parallel reads *)

\* the registrations a document offers to the index
RegsOfFile(f) == fileRegistrations(parseFile(f, vaultText[f]))

\* the registrations of key k in the documents of the folder, in listing
\* order and in document order
RegsOfKey(k) ==
  LET files == getMarkdownFilesInFolder(SettingFolder)
  IN SelectSeq(Flatten([n \in 1..Len(files) |-> RegsOfFile(files[n])]),
               LAMBDA r : Trim(r.variant) = k)

\* the keys offered by the documents of the folder
OfferedKeys ==
  LET files == getMarkdownFilesInFolder(SettingFolder)
  IN { Trim(r.variant) : r \in UNION { Range(RegsOfFile(files[n])) : n \in 1..Len(files) } }
       \ { <<>> }

\* C20: index content is independent of I/O timing: for a fixed listing and
\* fixed document texts the built index (keyword set, record and groupId of
\* every key) is the same for every order in which the parallel reads
\* complete, and on a key collision the key keeps the record and groupId of
\* the first registrant in listing order.
C20_IndexIndependentOfReadOrder ==
  cacheHas(SettingFolder) =>
    /\ keywordsCache[SettingFolder] = builtIndex(SettingFolder).keywords
    /\ keywordPreviewCache[SettingFolder] = builtIndex(SettingFolder).previewMap
    /\ keywordGroupCache[SettingFolder] = builtIndex(SettingFolder).groupMap
    /\ Range(keywordsCache[SettingFolder]) = OfferedKeys
    /\ \A k \in OfferedKeys :
         /\ keywordPreviewCache[SettingFolder][k] = RegsOfKey(k)[1].previewData
         /\ keywordGroupCache[SettingFolder][k] = RegsOfKey(k)[1].groupId

\* the read of the second document completed first, both documents offer the
\* key X, and the index has been built
C20_Witness ==
  /\ cacheHas(SettingFolder)
  /\ completionOrder = <<RefFile2, RefFile1>>
  /\ \E r \in Range(RegsOfFile(RefFile1)) : Trim(r.variant) = <<"X">>
  /\ \E r \in Range(RegsOfFile(RefFile2)) : Trim(r.variant) = <<"X">>
  /\ keywordPreviewCache[SettingFolder][<<"X">>].filePath = RefFile1

====
